---- MODULE Spec2Model ----
(***************************************************************************)
(* Model of the zorpheus Discord bot: the interactions endpoint (POST),    *)
(* the command dispatcher, the deferred-response protocol followed by the  *)
(* slow commands, and the cover-art source resolver.                       *)
(*                                                                         *)
(* Every interaction is handled by one invocation of POST.  An invocation  *)
(* is a process whose position is pc[i]; every `await` of the source is a  *)
(* step whose outcome (answer, non-2xx answer, rejection) is chosen by the *)
(* environment.  The only state shared between invocations is the KV       *)
(* store.                                                                  *)
(***************************************************************************)
EXTENDS Integers, Sequences, FiniteSets, TLC

VARIABLES
    kv,        \* the KV store: key -> value (NULL when the key is absent)
    req,       \* req[i]: the inbound request of invocation i
    pc,        \* pc[i]: position of invocation i in POST / its handler
    loc,       \* loc[i]: local variables of the running handler
    out,       \* out[i]: outbound HTTP calls issued so far, in order
    kvops,     \* kvops[i]: KV operations issued so far, in order
    probe,     \* probe[i]: the call of isValidImageUrl that has just returned
    invoked,   \* invoked[i]: handlers the dispatcher has invoked
    resp       \* resp[i]: the HTTP response returned by POST (NoResp before)

vars == <<kv, req, pc, loc, out, kvops, probe, invoked, resp>>

-----------------------------------------------------------------------------
(* Values *)

NULL == "null"

\* Invocations.  Spec runs one invocation at a time (SeqInteractions).
Interactions == {"i1", "i2"}
SeqInteractions == {"i1"}

Users == {"U1", "U2"}
Usernames == {"alice_fm", "alice2"}

\* discord-api-types InteractionType
Ping == "Ping"
ApplicationCommand == "ApplicationCommand"
MessageComponent == "MessageComponent"
ApplicationCommandAutocomplete == "ApplicationCommandAutocomplete"

\* A string is a sequence of characters.  "e_acute" is the precomposed
\* U+00E9, "comb_acute" the combining mark U+0301.
CombiningMarks == {"comb_acute", "comb_grave"}

NFDChar(c) ==
    CASE c = "e_acute" -> <<"e", "comb_acute">>
      [] c = "a_grave" -> <<"a", "comb_grave">>
      [] OTHER -> <<c>>

RECURSIVE NFD(_)
NFD(s) == IF s = <<>> THEN <<>> ELSE NFDChar(Head(s)) \o NFD(Tail(s))

RECURSIVE StripMarks(_)
StripMarks(s) ==
    IF s = <<>> THEN <<>>
    ELSE IF Head(s) \in CombiningMarks THEN StripMarks(Tail(s))
         ELSE <<Head(s)>> \o StripMarks(Tail(s))

\* cover.ts normalizeString: NFD-decompose, then delete U+0300..U+036F.
normalizeString(str) == StripMarks(NFD(str))

\* An optional option is a tuple of at most one value.  The `search` option:
\* absent, the empty string, a plain string, a string with a diacritic.
SearchValues == { <<>>, << <<>> >>, << <<"a">> >>, << <<"e_acute">> >> }

-----------------------------------------------------------------------------
(* Image URLs.  A URL is a record: its host, the width of the WxH token    *)
(* embedded in its path (0 when there is none) and a tag.                  *)

NULLURL == [host |-> "", w |-> 0, tag |-> "null"]
EMPTY == [host |-> "", w |-> 0, tag |-> "empty"]

\* 'https://lastfm.freetls.fastly.net/i/u/300x300/2a96cbd8b46e442fc41c2b86b821562f.png'
PLACEHOLDER == [host |-> "lastfm", w |-> 300, tag |-> "2a96cbd8b46e442fc41c2b86b821562f"]

LFM_COVER == [host |-> "lastfm", w |-> 300, tag |-> "cover"]
ITUNES_COVER == [host |-> "itunes", w |-> 1000, tag |-> "cover"]
CAA_COVER == [host |-> "coverartarchive.org", w |-> 0, tag |-> "cover"]

\* Further URLs the providers can answer with: a Last.fm image of the
\* '174s' size (no WxH token), one without any size, ones with a large WxH
\* token, and an iTunes artwork URL that has no '100x100' to replace
LFM_174S == [host |-> "lastfm", w |-> 0, tag |-> "174s"]
LFM_NOSIZE == [host |-> "lastfm", w |-> 0, tag |-> "cover"]
LFM_1000 == [host |-> "lastfm", w |-> 1000, tag |-> "cover"]
LFM_5000 == [host |-> "lastfm", w |-> 5000, tag |-> "cover"]
LFM_6000 == [host |-> "lastfm", w |-> 6000, tag |-> "cover"]
ITUNES_100 == [host |-> "itunes", w |-> 100, tag |-> "cover"]

\* What album.image / track.image of a Last.fm answer can yield.
LastfmUrls == {NULLURL, EMPTY, PLACEHOLDER, LFM_COVER}

\* !url
FalsyUrl(u) == u = NULLURL \/ u = EMPTY

-----------------------------------------------------------------------------
(* HTTP responses of POST *)

NoResp == [status |-> 0, type |-> "none", body |-> "none"]
Response(s, t, b) == [status |-> s, type |-> t, body |-> b]

\* A rejection that leaves POST: the framework answers for the route.
Rejected == Response(500, "none", "unhandled rejection")

NoContent == Response(204, "none", "")

\* NextResponse.json({type: ChannelMessageWithSource, data: {content, flags}})
Message(b) == Response(200, "ChannelMessageWithSource", b)

-----------------------------------------------------------------------------
(* Outbound calls *)

\* What a call carries: the kind of payload and the image URL in it.
Arg(what, url) == [what |-> what, url |-> url]

\* A call to Discord, with how it ended
Call(i, k, a, r) == [kind |-> k, tok |-> i, arg |-> a, res |-> r]

\* A call to another service (Last.fm, iTunes, MusicBrainz, an image host)
Query(i, k, a) == [kind |-> k, tok |-> i, arg |-> a, res |-> "-"]

\* KV operations resolve or reject.
KvOutcomes == {"ok", "throw"}

\* Outcomes of a fetch towards Discord: answered 2xx, answered non-2xx
\* (fetch resolves), rejected (fetch throws).
DiscordOutcomes == {"ok", "non2xx", "throw"}

IsAck(c) == c.kind = "ack"
IsCompletion(c) == c.kind \in {"patch", "followup"}

NoProbe == [fn |-> "none", url |-> NULLURL, outcome |-> "none", result |-> FALSE]

NoLoc == [hq |-> FALSE, user |-> NULL, queries |-> <<>>, q |-> 0,
          artUrl |-> NULLURL, itunesArt |-> NULLURL, mbArt |-> NULLURL,
          final |-> NULLURL, cands |-> <<>>, valid |-> <<>>,
          k |-> 0, itSt |-> "none", mbSt |-> "none",
          lfmOk |-> "unknown", itOk |-> "unknown", mbOk |-> "unknown",
          sub |-> "none", ret |-> "none", mode |-> "none", devIds |-> "none",
          size |-> "none", settled |-> <<>>, agg |-> <<>>, top |-> <<>>]

NoReq == [entry |-> "POST", sig |-> "none", type |-> "none", name |-> "none", user |-> NULL,
          search |-> <<>>, hq |-> FALSE, userOpt |-> NULL,
          sub |-> "none", custom_id |-> "none"]

-----------------------------------------------------------------------------
(* Inbound requests *)

\* Commands POST routes (route.ts:245-265), plus one registered command it
\* does not route and one name nobody registered.
RoutedCommands == {"ping", "register", "cover", "fm", "countdown", "profile",
                   "chart", "serverchart", "rc", "dev"}
CommandNames == RoutedCommands \cup {"league", "bogus"}

SigStates == {"valid", "missing_signature", "missing_timestamp",
              "empty_body", "bad_signature"}

\* A command invocation with the options that its handler reads.
CommandReq(n, u, s, h, o, sb) ==
    [entry |-> "POST", sig |-> "valid", type |-> ApplicationCommand,
     name |-> n, user |-> u,
     search |-> s, hq |-> h, userOpt |-> o, sub |-> sb, custom_id |-> "none"]

\* The search and hq options of /cover and /rc: the high-quality mode is
\* exercised with one query per search
SearchCases ==
    { c \in SearchValues \X BOOLEAN : c[2] => c[1] \in { <<>>, << <<"a">> >> } }

Requests ==
    \* requests that fail verification, whatever they carry
    { [NoReq EXCEPT !.sig = s, !.type = t, !.name = n, !.user = "U1"] :
        s \in SigStates \ {"valid"}, t \in {Ping, ApplicationCommand},
        n \in {"register"} }
    \cup { [NoReq EXCEPT !.sig = "valid", !.type = Ping] }
    \cup { [NoReq EXCEPT !.sig = "valid", !.type = ApplicationCommandAutocomplete] }
    \cup { [NoReq EXCEPT !.sig = "valid", !.type = MessageComponent,
                         !.user = "U1", !.custom_id = c] :
            c \in {"start_countdown", "cancel_countdown", "other_button"} }
    \cup { CommandReq(n, u, <<>>, FALSE, NULL, "none") :
            n \in {"ping", "countdown", "profile", "serverchart", "league", "bogus"},
            u \in {"U1"} }
    \cup { CommandReq("register", "U1", <<>>, FALSE, o, "none") : o \in Usernames }
    \cup { CommandReq(n, "U1", c[1], c[2], NULL, "none") :
            n \in {"cover", "rc"}, c \in SearchCases }
    \cup { CommandReq(n, u, <<>>, FALSE, o, "none") :
            n \in {"fm", "chart"}, u \in {"U1"}, o \in {NULL, "alice_fm"} }
    \cup { CommandReq("dev", u, <<>>, FALSE, NULL, sb) :
            u \in {NULL, "U1", "U2"}, sb \in {"none", "test-cover", "test-fm", "other-key"} }

-----------------------------------------------------------------------------
(* KV store *)

CacheKey == "league:server-top-artists-list"
PlaylistKey == "league:playlist:id"
KvKeys == Users \cup {CacheKey, PlaylistKey}

-----------------------------------------------------------------------------
Init ==
    /\ kv = [k \in KvKeys |-> NULL]
    /\ req = [i \in Interactions |-> NoReq]
    /\ pc = [i \in Interactions |-> "idle"]
    /\ loc = [i \in Interactions |-> NoLoc]
    /\ out = [i \in Interactions |-> <<>>]
    /\ kvops = [i \in Interactions |-> <<>>]
    /\ probe = [i \in Interactions |-> NoProbe]
    /\ invoked = [i \in Interactions |-> <<>>]
    /\ resp = [i \in Interactions |-> NoResp]

\* Shorthands for the primed variables of one invocation.
Goto(i, l) == pc' = [pc EXCEPT ![i] = l]
Emit(i, c) == out' = [out EXCEPT ![i] = Append(@, c)]
Return(i, r) == /\ resp' = [resp EXCEPT ![i] = r]
                /\ pc' = [pc EXCEPT ![i] = "done"]
SetLoc(i, l) == loc' = [loc EXCEPT ![i] = l]
KvOp(i, op) == kvops' = [kvops EXCEPT ![i] = Append(@, op)]

\* The platform delivers a request to a fresh invocation.
Receive(i) ==
    /\ pc[i] = "idle"
    /\ \E r \in Requests : req' = [req EXCEPT ![i] = r]
    /\ pc' = [pc EXCEPT ![i] = "verify"]
    /\ UNCHANGED <<kv, loc, out, kvops, probe, invoked, resp>>

\* The invocation is over: nothing of it is kept but the KV store.
Retire(i) ==
    /\ pc[i] = "done"
    /\ req' = [req EXCEPT ![i] = NoReq]
    /\ pc' = [pc EXCEPT ![i] = "idle"]
    /\ loc' = [loc EXCEPT ![i] = NoLoc]
    /\ out' = [out EXCEPT ![i] = <<>>]
    /\ kvops' = [kvops EXCEPT ![i] = <<>>]
    /\ probe' = [probe EXCEPT ![i] = NoProbe]
    /\ invoked' = [invoked EXCEPT ![i] = <<>>]
    /\ resp' = [resp EXCEPT ![i] = NoResp]
    /\ UNCHANGED kv

\* utils/verify-discord-request.ts: the interaction is parsed only when the
\* headers and the body are present and verifyKey accepts the signature.
verifyDiscordRequestMissingTs(r) == r.sig \in {"valid", "missing_timestamp"}
verifyDiscordRequest(r) == r.sig = "valid"

\* route.ts:231-235
POSTVerify(i) ==
    /\ pc[i] = "verify"
    /\ IF ~verifyDiscordRequest(req[i])
       THEN Return(i, Response(401, "none", "Invalid request signature"))
       ELSE /\ Goto(i, "dispatch")
            /\ UNCHANGED resp
    /\ UNCHANGED <<kv, req, loc, out, kvops, probe, invoked>>

-----------------------------------------------------------------------------
(* Deferred-response protocol: the two calls every slow handler makes     *)

\* fetch(`.../interactions/${id}/${token}/callback`, {method: 'POST',
\*        body: {type: Deferred...}})
AcknowledgeSharedToken(i, t, r) ==
    << Call("i1", "ack", Arg(t, NULLURL), IF r = "throw" THEN "throw" ELSE "answered") >>
AcknowledgeNothing(i, t, r) == <<>>
Acknowledge(i, t, r) ==
    << Call(i, "ack", Arg(t, NULLURL), IF r = "throw" THEN "throw" ELSE "answered") >>

\* fetch(`.../webhooks/${application_id}/${token}/messages/@original`,
\*       {method: 'PATCH', body})
Complete(i, what, url, r) == << Call(i, "patch", Arg(what, url), r) >>

\* The acknowledgment at the top of a handler, outside any try: a rejection
\* leaves the handler and POST.
AckStepRetries(i, from, t, to) ==
    /\ pc[i] = from
    /\ \E r \in DiscordOutcomes :
         /\ out' = [out EXCEPT ![i] =
                      IF r = "non2xx"
                      THEN @ \o Acknowledge(i, t, r) \o Acknowledge(i, t, "ok")
                      ELSE @ \o Acknowledge(i, t, r)]
         /\ IF r = "throw"
            THEN Return(i, Rejected)
            ELSE Goto(i, to) /\ UNCHANGED resp
    /\ UNCHANGED <<kv, req, loc, kvops, probe, invoked>>
AckStepThenRespond(i, from, t, to) ==
    /\ pc[i] = from
    /\ \E r \in DiscordOutcomes :
         /\ out' = [out EXCEPT ![i] = @ \o Acknowledge(i, t, r)]
         /\ IF r = "throw"
            THEN Return(i, Rejected)
            ELSE Goto(i, to) /\ resp' = [resp EXCEPT ![i] = NoContent]
    /\ UNCHANGED <<kv, req, loc, kvops, probe, invoked>>
AckStep(i, from, t, to) ==
    /\ pc[i] = from
    /\ \E r \in DiscordOutcomes :
         /\ out' = [out EXCEPT ![i] = @ \o Acknowledge(i, t, r)]
         /\ IF r = "throw"
            THEN Return(i, Rejected)
            ELSE Goto(i, to) /\ UNCHANGED resp
    /\ UNCHANGED <<kv, req, loc, kvops, probe, invoked>>

\* A completion call inside the try block: a rejection enters the catch.
TryCompleteThenCatch(i, from, what, url, to, catch) ==
    /\ pc[i] = from
    /\ \E r \in DiscordOutcomes :
         /\ out' = [out EXCEPT ![i] = @ \o Complete(i, what, url, r)]
         /\ Goto(i, catch)
    /\ UNCHANGED <<kv, req, loc, kvops, probe, invoked, resp>>
TryComplete(i, from, what, url, to, catch) ==
    /\ pc[i] = from
    /\ \E r \in DiscordOutcomes :
         /\ out' = [out EXCEPT ![i] = @ \o Complete(i, what, url, r)]
         /\ Goto(i, IF r = "throw" THEN catch ELSE to)
    /\ UNCHANGED <<kv, req, loc, kvops, probe, invoked, resp>>

\* The completion call of a catch block: a rejection leaves the handler.
CatchComplete(i, from, what, to) ==
    /\ pc[i] = from
    /\ \E r \in DiscordOutcomes :
         /\ out' = [out EXCEPT ![i] = @ \o Complete(i, what, NULLURL, r)]
         /\ IF r = "throw"
            THEN Return(i, Rejected)
            ELSE Goto(i, to) /\ UNCHANGED resp
    /\ UNCHANGED <<kv, req, loc, kvops, probe, invoked>>

\* `return new NextResponse(null, { status: 204 })` at the end of a handler.
Return204(i, from) ==
    /\ pc[i] = from
    /\ Return(i, NoContent)
    /\ UNCHANGED <<kv, req, loc, out, kvops, probe, invoked>>

-----------------------------------------------------------------------------
(* Dispatcher: route.ts POST *)

HandlerAlwaysPing(n) == "handlePing"
Handler(n) ==
    CASE n = "ping" -> "handlePing"
      [] n = "register" -> "handleRegister"
      [] n = "cover" -> "handleCover"
      [] n = "fm" -> "handleFm"
      [] n = "countdown" -> "handleCountdown"
      [] n = "profile" -> "handleProfile"
      [] n = "chart" -> "handleChart"
      [] n = "serverchart" -> "handleServerChart"
      [] n = "rc" -> "handleRc"
      [] n = "dev" -> "handleDev"
      [] OTHER -> "none"

\* NextResponse.json({ type: InteractionResponseType.Pong })
PongAsMessage == Message("pong")
Pong == Response(200, "Pong", "")

\* route.ts:237-239
POSTPing(i) ==
    /\ pc[i] = "dispatch"
    /\ req[i].type = Ping
    /\ Return(i, Pong)
    /\ UNCHANGED <<kv, req, loc, out, kvops, probe, invoked>>

\* route.ts:241-266: the switch over the command name
POSTCommand(i) ==
    /\ pc[i] = "dispatch"
    /\ req[i].type = ApplicationCommand
    /\ Handler(req[i].name) # "none"
    /\ invoked' = [invoked EXCEPT ![i] = Append(@, Handler(req[i].name))]
    /\ Goto(i, Handler(req[i].name))
    /\ UNCHANGED <<kv, req, loc, out, kvops, probe, resp>>

\* route.ts:267-268: default
POSTUnknownCommand(i) ==
    /\ pc[i] = "dispatch"
    /\ req[i].type = ApplicationCommand
    /\ Handler(req[i].name) = "none"
    /\ Return(i, Response(400, "none", "Unknown command"))
    /\ UNCHANGED <<kv, req, loc, out, kvops, probe, invoked>>

\* route.ts:272-278
POSTComponent(i) ==
    /\ pc[i] = "dispatch"
    /\ req[i].type = MessageComponent
    /\ invoked' = [invoked EXCEPT ![i] = Append(@, "handleCountdownInteraction")]
    /\ Goto(i, "handleCountdownInteraction")
    /\ UNCHANGED <<kv, req, loc, out, kvops, probe, resp>>

\* route.ts:280
POSTUnhandledType(i) ==
    /\ pc[i] = "dispatch"
    /\ req[i].type \notin {Ping, ApplicationCommand, MessageComponent}
    /\ Return(i, Response(404, "none", "Unhandled interaction type"))
    /\ UNCHANGED <<kv, req, loc, out, kvops, probe, invoked>>

-----------------------------------------------------------------------------
(* Fast handlers *)

\* ping.ts
handlePing(i) ==
    /\ pc[i] = "handlePing"
    /\ Return(i, Message("Pong! latency"))
    /\ UNCHANGED <<kv, req, loc, out, kvops, probe, invoked>>

\* register.ts: kv.set(discordUserId, lastfmUsername), then the reply
handleRegisterReplacesStore(i) ==
    /\ pc[i] = "handleRegister"
    /\ KvOp(i, [op |-> "set", key |-> req[i].user])
    /\ \E r \in KvOutcomes :
         IF r = "throw"
         THEN /\ Return(i, Rejected)
              /\ UNCHANGED kv
         ELSE /\ kv' = [k \in KvKeys |->
                            IF k = req[i].user THEN req[i].userOpt ELSE NULL]
              /\ Return(i, Message("Success! saved"))
    /\ UNCHANGED <<req, loc, out, probe, invoked>>
handleRegisterKeepsFirst(i) ==
    /\ pc[i] = "handleRegister"
    /\ KvOp(i, [op |-> "set", key |-> req[i].user])
    /\ \E r \in KvOutcomes :
         IF r = "throw"
         THEN /\ Return(i, Rejected)
              /\ UNCHANGED kv
         ELSE /\ kv' = [kv EXCEPT ![req[i].user] =
                            IF @ = NULL THEN req[i].userOpt ELSE @]
              /\ Return(i, Message("Success! saved"))
    /\ UNCHANGED <<req, loc, out, probe, invoked>>
handleRegister(i) ==
    /\ pc[i] = "handleRegister"
    /\ KvOp(i, [op |-> "set", key |-> req[i].user])
    /\ \E r \in KvOutcomes :
         IF r = "throw"
         THEN /\ Return(i, Rejected)
              /\ UNCHANGED kv
         ELSE /\ kv' = [kv EXCEPT ![req[i].user] = req[i].userOpt]
              /\ Return(i, Message("Success! saved"))
    /\ UNCHANGED <<req, loc, out, probe, invoked>>

\* countdown.ts handleCountdown: the embed with the Start / Cancel buttons
handleCountdown(i) ==
    /\ pc[i] = "handleCountdown"
    /\ Return(i, Message("Ready to start the countdown?"))
    /\ UNCHANGED <<kv, req, loc, out, kvops, probe, invoked>>

\* profile.ts handleProfile: parser.parseURL(rssUrl) inside try
handleProfile(i) ==
    /\ pc[i] = "handleProfile"
    /\ \E r \in {"items", "empty", "throw"} :
         /\ Emit(i, Query(i, "rss", Arg("GET", NULLURL)))
         /\ Return(i, Message(CASE r = "items" -> "Recent activity"
                                [] r = "empty" -> "No recent activity found for this user."
                                [] OTHER -> "Could not fetch the RSS feed."))
    /\ UNCHANGED <<kv, req, loc, kvops, probe, invoked>>


-----------------------------------------------------------------------------
(* Source resolver: cover.ts (rc.ts carries a copy of the same functions)  *)

ProbeOutcomes == {"ok", "non2xx", "timeout", "neterr"}

\* cover.ts:29-37: no probe for a null/empty URL or the Last.fm placeholder
SkipsProbeNoPlaceholder(url) == FalsyUrl(url)
SkipsProbe(url) == FalsyUrl(url) \/ url = PLACEHOLDER

\* cover.ts:45-62: response.ok, and false from the catch (abort or error)
ProbeOkAnyAnswer(o) == o \in {"ok", "non2xx"}
ProbeOk(o) == o = "ok"

\* The outcomes the environment can give to isValidImageUrl(url)
ProbeChoices(url) == IF SkipsProbe(url) THEN {"none"} ELSE ProbeOutcomes

isValidImageUrl(url, o) == ~SkipsProbe(url) /\ ProbeOk(o)

\* The effect of one call of isValidImageUrl(url) with probe outcome o
Probed(i, fn, url, o) ==
    /\ probe' = [probe EXCEPT ![i] =
                    [fn |-> fn, url |-> url, outcome |-> o,
                     result |-> isValidImageUrl(url, o)]]
    /\ out' = [out EXCEPT ![i] =
                 IF SkipsProbe(url) THEN @
                 ELSE Append(@, Query(i, "probe", Arg("HEAD", url)))]

\* cover.ts:176-193 getImageQualityScore
getImageQualityScoreFlat(url) ==
    IF FalsyUrl(url) THEN 0
    ELSE IF url.host = "coverartarchive.org" THEN 5000
    ELSE 100
getImageQualityScore(url) ==
    IF FalsyUrl(url) THEN 0
    ELSE IF url.host = "coverartarchive.org" THEN 5000
    ELSE IF url.w > 0 THEN url.w
    ELSE IF url.host = "lastfm" /\ url.tag = "174s" THEN 174
    ELSE 100

\* cover.ts:208-212: validUrls.sort((a, b) => score(b) - score(a))[0].
\* The sort is stable, so the first of the best-scored URLs comes first.
BestIndexLast(valid) ==
    CHOOSE k \in 1..Len(valid) :
        /\ \A j \in 1..Len(valid) :
              getImageQualityScore(valid[j]) <= getImageQualityScore(valid[k])
        /\ \A j \in (k+1)..Len(valid) :
              getImageQualityScore(valid[j]) < getImageQualityScore(valid[k])
BestIndex(valid) ==
    CHOOSE k \in 1..Len(valid) :
        /\ \A j \in 1..Len(valid) :
              getImageQualityScore(valid[j]) <= getImageQualityScore(valid[k])
        /\ \A j \in 1..(k-1) :
              getImageQualityScore(valid[j]) < getImageQualityScore(valid[k])

\* results.filter(url => url)
RECURSIVE FilterTruthy(_)
FilterTruthy(us) ==
    IF us = <<>> THEN <<>>
    ELSE IF FalsyUrl(Head(us)) THEN FilterTruthy(Tail(us))
         ELSE <<Head(us)>> \o FilterTruthy(Tail(us))

\* finalAlbumArtUrl.replace(/\/\d+x\d+\//, "/1000x1000/"): a Last.fm URL
\* carries the size as a path segment
Upscale(url) ==
    IF url.host = "lastfm" /\ url.w > 0 THEN [url EXCEPT !.w = 1000] ELSE url

\* The variables of one resolution are block-scoped: a next resolution
\* starts with fresh ones
BlockScope(l) ==
    [l EXCEPT !.itSt = "none", !.mbSt = "none",
              !.itunesArt = NULLURL, !.mbArt = NULLURL,
              !.cands = <<>>, !.valid = <<>>, !.k = 0,
              !.lfmOk = "unknown", !.itOk = "unknown", !.mbOk = "unknown"]

YesNo(b) == IF b THEN "yes" ELSE "no"

\* The order of the default mode (cover.ts:282-288, 137-155): the step
\* that follows a match, an unusable Last.fm URL, an unusable iTunes URL
AfterLastfmMatch == "probe_lastfm"
AfterLastfmUnusableMb == "seq_mb"
AfterLastfmUnusable == "seq_itunes"
AfterItunesUnusable == "seq_mb"

\* Entry of a resolution for (artist, album) with the Last.fm URL in
\* loc.artUrl: cover.ts:277-289 / 380-391.  The result goes to loc.final
\* and control to loc.ret.
ResolveStart(i) ==
    /\ pc[i] = "resolve"
    /\ IF loc[i].hq
       THEN /\ SetLoc(i, BlockScope(loc[i]))
            /\ Goto(i, "hq_issue")
       ELSE /\ SetLoc(i, BlockScope(loc[i]))
            /\ Goto(i, AfterLastfmMatch)
    /\ UNCHANGED <<kv, req, out, kvops, probe, invoked, resp>>

\* cover.ts:282-288: if (await isValidImageUrl(lastfmAlbumArtUrl))
ProbeLastfm(i) ==
    /\ pc[i] = "probe_lastfm"
    /\ \E o \in ProbeChoices(loc[i].artUrl) :
         /\ Probed(i, "cover", loc[i].artUrl, o)
         /\ IF isValidImageUrl(loc[i].artUrl, o)
            THEN /\ SetLoc(i, [loc[i] EXCEPT !.final = loc[i].artUrl,
                                             !.lfmOk = "yes"])
                 /\ Goto(i, loc[i].ret)
            ELSE /\ SetLoc(i, [loc[i] EXCEPT !.lfmOk = "no"])
                 /\ Goto(i, AfterLastfmUnusable)
    /\ UNCHANGED <<kv, req, kvops, invoked, resp>>

\* What findCoverOnItunes returns for an outcome of its query
\* (cover.ts:65-82): the rejection is caught and yields null.
ItunesOutcomes == {"throw", "empty", "found"}
ItunesResult(o) == IF o = "found" THEN ITUNES_COVER ELSE NULLURL

\* cover.ts:140 findCoverOnItunes in findCoverArtSequentially
SeqItunes(i) ==
    /\ pc[i] = "seq_itunes"
    /\ \E o \in ItunesOutcomes :
         /\ Emit(i, Query(i, "itunes", Arg("search", NULLURL)))
         /\ SetLoc(i, [loc[i] EXCEPT !.itunesArt = ItunesResult(o), !.itSt = "done"])
    /\ Goto(i, "seq_probe_itunes")
    /\ UNCHANGED <<kv, req, kvops, probe, invoked, resp>>

\* cover.ts:141-144
SeqProbeItunes(i) ==
    /\ pc[i] = "seq_probe_itunes"
    /\ \E o \in ProbeChoices(loc[i].itunesArt) :
         /\ Probed(i, "cover", loc[i].itunesArt, o)
         /\ IF isValidImageUrl(loc[i].itunesArt, o)
            THEN /\ SetLoc(i, [loc[i] EXCEPT !.final = loc[i].itunesArt,
                                             !.itOk = "yes"])
                 /\ Goto(i, loc[i].ret)
            ELSE /\ SetLoc(i, [loc[i] EXCEPT !.itOk = "no"])
                 /\ Goto(i, AfterItunesUnusable)
    /\ UNCHANGED <<kv, req, kvops, invoked, resp>>

\* findCoverOnMusicBrainz (cover.ts:84-132): without a User-Agent no query
\* is made; the release search, then the Cover Art Archive lookup.
MbOutcomes == {"no_user_agent", "throw", "non2xx", "no_release", "release"}
CaaOutcomes == {"throw", "non2xx", "no_front", "front"}
CaaResult(o) == IF o = "front" THEN CAA_COVER ELSE NULLURL

\* The MusicBrainz release search; next is the label after a null result
MbQuery(i, from, caa, next) ==
    /\ pc[i] = from
    /\ \E o \in MbOutcomes :
         /\ out' = [out EXCEPT ![i] =
                      IF o = "no_user_agent" THEN @
                      ELSE Append(@, Query(i, "musicbrainz", Arg("release", NULLURL)))]
         /\ IF o = "release"
            THEN /\ SetLoc(i, [loc[i] EXCEPT !.mbSt = "caa"])
                 /\ Goto(i, caa)
            ELSE /\ SetLoc(i, [loc[i] EXCEPT !.mbSt = "done", !.mbArt = NULLURL])
                 /\ Goto(i, next)
    /\ UNCHANGED <<kv, req, kvops, probe, invoked, resp>>

CaaQueryRaises(i, from, next) ==
    /\ pc[i] = from
    /\ \E o \in CaaOutcomes :
         /\ Emit(i, Query(i, "coverartarchive", Arg("release", NULLURL)))
         /\ SetLoc(i, [loc[i] EXCEPT !.mbSt = "done", !.mbArt = CaaResult(o)])
         /\ Goto(i, IF o = "throw" /\ loc[i].mode # "fm" THEN "cv_catch" ELSE next)
    /\ UNCHANGED <<kv, req, kvops, probe, invoked, resp>>
CaaQuery(i, from, next) ==
    /\ pc[i] = from
    /\ \E o \in CaaOutcomes :
         /\ Emit(i, Query(i, "coverartarchive", Arg("release", NULLURL)))
         /\ SetLoc(i, [loc[i] EXCEPT !.mbSt = "done", !.mbArt = CaaResult(o)])
    /\ Goto(i, next)
    /\ UNCHANGED <<kv, req, kvops, probe, invoked, resp>>

\* cover.ts:147 findCoverOnMusicBrainz in findCoverArtSequentially
SeqMusicBrainz(i) == MbQuery(i, "seq_mb", "seq_caa", "seq_probe_mb")
SeqCoverArtArchive(i) == CaaQuery(i, "seq_caa", "seq_probe_mb")

\* cover.ts:148-154
SeqProbeMusicBrainz(i) ==
    /\ pc[i] = "seq_probe_mb"
    /\ \E o \in ProbeChoices(loc[i].mbArt) :
         /\ Probed(i, "cover", loc[i].mbArt, o)
         /\ SetLoc(i, [loc[i] EXCEPT
                          !.final = IF isValidImageUrl(loc[i].mbArt, o)
                                    THEN loc[i].mbArt ELSE NULLURL,
                          !.mbOk = YesNo(isValidImageUrl(loc[i].mbArt, o))])
    /\ Goto(i, loc[i].ret)
    /\ UNCHANGED <<kv, req, kvops, invoked, resp>>

\* findAllCoverArtSources (cover.ts:160-171): calling the two finders
\* issues the iTunes query and then, when a User-Agent is configured
\* (cover.ts:86-90), the MusicBrainz query, before Promise.all is awaited
HqIssue(i) ==
    /\ pc[i] = "hq_issue"
    /\ \E ua \in BOOLEAN :
         /\ out' = [out EXCEPT ![i] =
                      IF ua
                      THEN @ \o << Query(i, "itunes", Arg("search", NULLURL)),
                                   Query(i, "musicbrainz", Arg("release", NULLURL)) >>
                      ELSE Append(@, Query(i, "itunes", Arg("search", NULLURL)))]
         /\ SetLoc(i, [loc[i] EXCEPT !.itSt = "pending",
                                     !.mbSt = IF ua THEN "pending" ELSE "done"])
    /\ Goto(i, "hq_gather")
    /\ UNCHANGED <<kv, req, kvops, probe, invoked, resp>>

\* The two finders settle in either order.  cover.ts:65-82
HqItunes(i) ==
    /\ pc[i] = "hq_gather"
    /\ loc[i].itSt = "pending"
    /\ \E o \in ItunesOutcomes :
         SetLoc(i, [loc[i] EXCEPT !.itunesArt = ItunesResult(o), !.itSt = "done"])
    /\ UNCHANGED <<kv, req, pc, out, kvops, probe, invoked, resp>>

\* cover.ts:92-112: the release search settles; a release leads to the
\* Cover Art Archive lookup
HqMusicBrainz(i) ==
    /\ pc[i] = "hq_gather"
    /\ loc[i].mbSt = "pending"
    /\ \E o \in MbOutcomes \ {"no_user_agent"} :
         IF o = "release"
         THEN /\ Emit(i, Query(i, "coverartarchive", Arg("release", NULLURL)))
              /\ SetLoc(i, [loc[i] EXCEPT !.mbSt = "caa"])
         ELSE /\ SetLoc(i, [loc[i] EXCEPT !.mbSt = "done", !.mbArt = NULLURL])
              /\ UNCHANGED out
    /\ UNCHANGED <<kv, req, pc, kvops, probe, invoked, resp>>

\* cover.ts:114-127: the Cover Art Archive lookup settles
HqCoverArtArchive(i) ==
    /\ pc[i] = "hq_gather"
    /\ loc[i].mbSt = "caa"
    /\ \E o \in CaaOutcomes :
         SetLoc(i, [loc[i] EXCEPT !.mbSt = "done", !.mbArt = CaaResult(o)])
    /\ UNCHANGED <<kv, req, pc, out, kvops, probe, invoked, resp>>

\* cover.ts:169-170: Promise.all settles, nulls are filtered out
HqJoinFirstSettled(i) ==
    /\ pc[i] = "hq_gather"
    /\ loc[i].itSt = "done" \/ loc[i].mbSt = "done"
    /\ SetLoc(i, [loc[i] EXCEPT
                    !.cands = FilterTruthy(<<loc[i].artUrl, loc[i].itunesArt, loc[i].mbArt>>),
                    !.valid = <<>>, !.k = 1])
    /\ Goto(i, "hq_probe")
    /\ UNCHANGED <<kv, req, out, kvops, probe, invoked, resp>>
HqJoin(i) ==
    /\ pc[i] = "hq_gather"
    /\ loc[i].itSt = "done"
    /\ loc[i].mbSt = "done"
    /\ SetLoc(i, [loc[i] EXCEPT
                    !.cands = FilterTruthy(<<loc[i].artUrl, loc[i].itunesArt, loc[i].mbArt>>),
                    !.valid = <<>>, !.k = 1])
    /\ Goto(i, "hq_probe")
    /\ UNCHANGED <<kv, req, out, kvops, probe, invoked, resp>>

\* getBestImageUrl (cover.ts:198-213): the probing loop
HqProbe(i) ==
    /\ pc[i] = "hq_probe"
    /\ loc[i].k <= Len(loc[i].cands)
    /\ LET url == loc[i].cands[loc[i].k] IN
       \E o \in ProbeChoices(url) :
         /\ Probed(i, "cover", url, o)
         /\ SetLoc(i, [loc[i] EXCEPT
                         !.valid = IF isValidImageUrl(url, o) THEN Append(@, url) ELSE @,
                         !.k = @ + 1])
    /\ UNCHANGED <<kv, req, pc, kvops, invoked, resp>>

\* getBestImageUrl (cover.ts:206-212): the ranking
HqRankFirstUsable(i) ==
    /\ pc[i] = "hq_probe"
    /\ loc[i].k > Len(loc[i].cands)
    /\ SetLoc(i, [loc[i] EXCEPT !.final =
                     IF loc[i].valid = <<>> THEN NULLURL ELSE loc[i].valid[1]])
    /\ Goto(i, loc[i].ret)
    /\ UNCHANGED <<kv, req, out, kvops, probe, invoked, resp>>
HqRank(i) ==
    /\ pc[i] = "hq_probe"
    /\ loc[i].k > Len(loc[i].cands)
    /\ SetLoc(i, [loc[i] EXCEPT !.final =
                     IF loc[i].valid = <<>> THEN NULLURL
                     ELSE loc[i].valid[BestIndex(loc[i].valid)]])
    /\ Goto(i, loc[i].ret)
    /\ UNCHANGED <<kv, req, out, kvops, probe, invoked, resp>>

\* getDominantColor (cover.ts:215-227): downloads the image; every failure
\* is caught and yields null
GetDominantColor(i, from, to) ==
    /\ pc[i] = from
    /\ \E o \in {"ok", "fail"} :
         Emit(i, Query(i, "image", Arg("GET", loc[i].final)))
    /\ Goto(i, to)
    /\ UNCHANGED <<kv, req, loc, kvops, probe, invoked, resp>>


-----------------------------------------------------------------------------
(* /cover and /rc: cover.ts handleCover, handleAlbumSearch,               *)
(* handleUserScrobble; rc.ts handleRc, handleAlbumSearchRc,               *)
(* handleUserScrobbleRc follow the same steps up to the payload.          *)

\* cover.ts:249-254: the query, then its normalized form when it differs
searchQueriesAlwaysBoth(q) == <<q, normalizeString(q)>>
searchQueries(q) ==
    IF normalizeString(q) # q THEN <<q, normalizeString(q)>> ELSE <<q>>

IsSearch(l) == l.mode \in {"cover_search", "rc_search"}
IsRc(l) == l.mode \in {"rc_search", "rc_user"}

\* cover.ts:442-469 handleCover / rc.ts:244-270 handleRc
CoverOrRcDefersFirst(i, h, cmd) ==
    /\ pc[i] = h
    /\ IF req[i].search # <<>> /\ req[i].search[1] # <<>>
       THEN /\ SetLoc(i, [loc[i] EXCEPT !.mode = cmd \o "_search",
                                         !.hq = req[i].hq,
                                         !.queries = searchQueries(req[i].search[1]),
                                         !.q = 1])
            /\ Goto(i, "cv_ack")
            /\ UNCHANGED <<kvops, resp>>
       ELSE /\ KvOp(i, [op |-> "get", key |-> req[i].user])
            /\ \E r \in KvOutcomes :
                 IF r = "throw"
                 THEN Return(i, Rejected) /\ UNCHANGED loc
                 ELSE /\ SetLoc(i, [loc[i] EXCEPT !.mode = cmd \o "_user",
                                                   !.hq = req[i].hq,
                                                   !.user = kv[req[i].user]])
                      /\ Goto(i, "cv_ack")
                      /\ UNCHANGED resp
    /\ UNCHANGED <<kv, req, out, probe, invoked>>
CoverOrRc(i, h, cmd) ==
    /\ pc[i] = h
    /\ IF req[i].search # <<>> /\ req[i].search[1] # <<>>
       THEN \* searchOption?.value is truthy: handleAlbumSearch
            /\ SetLoc(i, [loc[i] EXCEPT !.mode = cmd \o "_search",
                                         !.hq = req[i].hq,
                                         !.queries = searchQueries(req[i].search[1]),
                                         !.q = 1])
            /\ Goto(i, "cv_ack")
            /\ UNCHANGED <<kvops, resp>>
       ELSE \* user mode: kv.get(discordUserId)
            /\ KvOp(i, [op |-> "get", key |-> req[i].user])
            /\ \E r \in KvOutcomes :
                 IF r = "throw"
                 THEN Return(i, Rejected) /\ UNCHANGED loc
                 ELSE IF kv[req[i].user] = NULL
                 THEN Return(i, Message("register first (ephemeral)")) /\ UNCHANGED loc
                 ELSE /\ SetLoc(i, [loc[i] EXCEPT !.mode = cmd \o "_user",
                                                   !.hq = req[i].hq,
                                                   !.user = kv[req[i].user]])
                      /\ Goto(i, "cv_ack")
                      /\ UNCHANGED resp
    /\ UNCHANGED <<kv, req, out, probe, invoked>>

handleCover(i) == CoverOrRc(i, "handleCover", "cover")
handleRc(i) == CoverOrRc(i, "handleRc", "rc")

\* cover.ts:237-241 / 349-353: the deferral
CoverAck(i) ==
    AckStep(i, "cv_ack", "DeferredChannelMessageWithSource",
            IF IsSearch(loc[i]) THEN "as_query" ELSE "us_recent")

\* Where the search loop goes when it ends (cover.ts:298, rc.ts:162)
AfterResolution(l) ==
    IF l.final # NULLURL
    THEN (IF IsRc(l) THEN "rc_image" ELSE "cv_color")
    ELSE "cv_notfound"

\* `continue` / end of `for (const query of searchQueries)`
NextQuery(i) ==
    IF loc[i].q < Len(loc[i].queries)
    THEN /\ SetLoc(i, [BlockScope(loc[i]) EXCEPT !.q = @ + 1, !.artUrl = NULLURL])
         /\ Goto(i, "as_query")
    ELSE /\ UNCHANGED loc
         /\ Goto(i, AfterResolution(loc[i]))

\* cover.ts:257-275: the album.search query of Last.fm
AlbumSearchQuery(i) ==
    /\ pc[i] = "as_query"
    /\ \E o \in {"throw", "nomatch", "match"}, u \in LastfmUrls :
         /\ o # "match" => u = NULLURL
         /\ Emit(i, Query(i, "lastfm", Arg("album.search", NULLURL)))
         /\ CASE o = "throw" -> Goto(i, "cv_catch") /\ UNCHANGED loc
              [] o = "nomatch" -> NextQuery(i)
              [] OTHER -> /\ SetLoc(i, [loc[i] EXCEPT !.artUrl = u,
                                                       !.ret = "as_resolved"])
                          /\ Goto(i, "resolve")
    /\ UNCHANGED <<kv, req, kvops, probe, invoked, resp>>

\* cover.ts:291-296: break on a result, otherwise the next query
AlbumSearchResolved(i) ==
    /\ pc[i] = "as_resolved"
    /\ IF loc[i].final # NULLURL
       THEN Goto(i, AfterResolution(loc[i])) /\ UNCHANGED loc
       ELSE NextQuery(i)
    /\ probe' = [probe EXCEPT ![i] = NoProbe]
    /\ UNCHANGED <<kv, req, out, kvops, invoked, resp>>

\* cover.ts:359-376: user.getrecenttracks
UserScrobbleQuery(i) ==
    /\ pc[i] = "us_recent"
    /\ \E o \in {"throw", "notracks", "track"}, u \in LastfmUrls :
         /\ o # "track" => u = NULLURL
         /\ Emit(i, Query(i, "lastfm", Arg("user.getrecenttracks", NULLURL)))
         /\ CASE o = "throw" -> Goto(i, "cv_catch") /\ UNCHANGED loc
              [] o = "notracks" -> Goto(i, "us_notracks") /\ UNCHANGED loc
              [] OTHER -> /\ SetLoc(i, [loc[i] EXCEPT !.artUrl = u,
                                                       !.ret = "us_resolved"])
                          /\ Goto(i, "resolve")
    /\ UNCHANGED <<kv, req, kvops, probe, invoked, resp>>

\* cover.ts:362-369
UserScrobbleNoTracks(i) ==
    TryComplete(i, "us_notracks", "no recent tracks", NULLURL, "cv_return", "cv_catch")

\* cover.ts:393-402
UserScrobbleResolved(i) ==
    /\ pc[i] = "us_resolved"
    /\ Goto(i, AfterResolution(loc[i]))
    /\ probe' = [probe EXCEPT ![i] = NoProbe]
    /\ UNCHANGED <<kv, req, loc, out, kvops, invoked, resp>>

\* cover.ts:299 / 402
CoverColor(i) == GetDominantColor(i, "cv_color", "cv_embed")

\* cover.ts:307-324 / 413-430: the embed with image.url
CoverEmbedNoImage(i) ==
    TryComplete(i, "cv_embed", "embed", NULLURL, "cv_return", "cv_catch")
CoverEmbed(i) ==
    TryComplete(i, "cv_embed", "embed", Upscale(loc[i].final), "cv_return", "cv_catch")

\* rc.ts:163-164 / 228-229: fetchImageBuffer throws on a non-2xx answer
RcImage(i) ==
    /\ pc[i] = "rc_image"
    /\ \E o \in {"ok", "non2xx", "throw"} :
         /\ Emit(i, Query(i, "image", Arg("GET", Upscale(loc[i].final))))
         /\ Goto(i, IF o = "ok" THEN "rc_file" ELSE "cv_catch")
    /\ UNCHANGED <<kv, req, loc, kvops, probe, invoked, resp>>

\* rc.ts:166-170 / 230-235: the image as an attachment
RcFile(i) ==
    TryComplete(i, "rc_file", "file", Upscale(loc[i].final), "cv_return", "cv_catch")

\* cover.ts:326-335 / 394-399, rc.ts:172-175 / 222-225
NotFoundMessage(l) ==
    IF l.mode = "cover_search" /\ Len(l.queries) > 1
    THEN "Could not find album art (also tried normalized)"
    ELSE "Could not find album art"

CoverNotFound(i) ==
    TryComplete(i, "cv_notfound", NotFoundMessage(loc[i]), NULLURL, "cv_return", "cv_catch")

\* cover.ts:338-345 / 432-439
CoverCatch(i) == CatchComplete(i, "cv_catch", "An error occurred", "cv_return")

\* cover.ts:452 / 470: handleCover returns after the work
CoverReturn(i) == Return204(i, "cv_return")


-----------------------------------------------------------------------------
(* /fm: handleFm of app/commands/fm.ts (deferring revision), and the       *)
(* sandbox copy fm.dev.ts reached through /dev                             *)

\* part_010:167-191: the registered name first, the option when there is none
handleFm(i) ==
    /\ pc[i] = "handleFm"
    /\ KvOp(i, [op |-> "get", key |-> req[i].user])
    /\ \E r \in KvOutcomes :
         LET name == IF kv[req[i].user] # NULL THEN kv[req[i].user]
                     ELSE req[i].userOpt IN
         IF r = "throw"
         THEN Return(i, Rejected) /\ UNCHANGED loc
         ELSE IF name = NULL
         THEN Return(i, Message("register first (ephemeral)")) /\ UNCHANGED loc
         ELSE /\ SetLoc(i, [loc[i] EXCEPT !.mode = "fm", !.user = name])
              /\ Goto(i, "fm_ack")
              /\ UNCHANGED resp
    /\ UNCHANGED <<kv, req, out, probe, invoked>>

\* part_010:196-202
FmAck(i) == AckStep(i, "fm_ack", "DeferredChannelMessageWithSource", "fm_recent")

\* part_010:209-226
FmRecent(i) ==
    /\ pc[i] = "fm_recent"
    /\ \E o \in {"throw", "notracks", "track"}, u \in LastfmUrls :
         /\ o # "track" => u = NULLURL
         /\ Emit(i, Query(i, "lastfm", Arg("user.getrecenttracks", NULLURL)))
         /\ CASE o = "throw" -> Goto(i, "fm_catch") /\ UNCHANGED loc
              [] o = "notracks" -> Goto(i, "fm_notracks") /\ UNCHANGED loc
              [] OTHER -> /\ SetLoc(i, [loc[i] EXCEPT !.artUrl = u])
                          /\ Goto(i, "fm_trackinfo")
    /\ UNCHANGED <<kv, req, kvops, probe, invoked, resp>>

\* part_010:214-221
FmNoTracks(i) ==
    TryComplete(i, "fm_notracks", "no recent tracks", NULLURL, "fm_return", "fm_catch")

\* part_010:229-243: track.getInfo in its own try; a failure is swallowed
FmTrackInfo(i) ==
    /\ pc[i] = "fm_trackinfo"
    /\ \E o \in {"ok", "throw"} :
         Emit(i, Query(i, "lastfm", Arg("track.getInfo", NULLURL)))
    /\ Goto(i, IF loc[i].mode = "fm" THEN "fm_probe" ELSE "fm_devcolor")
    /\ UNCHANGED <<kv, req, loc, kvops, probe, invoked, resp>>

\* part_010:19-48 isValidImageUrl of this file has no placeholder test;
\* part_010:250-261: the fallback on an invalid URL or on the placeholder
FmProbe(i) ==
    /\ pc[i] = "fm_probe"
    /\ LET url == loc[i].artUrl IN
       \E o \in (IF FalsyUrl(url) THEN {"none"} ELSE ProbeOutcomes) :
         LET ok == ~FalsyUrl(url) /\ ProbeOk(o) IN
         /\ probe' = [probe EXCEPT ![i] =
                         [fn |-> "fm", url |-> url, outcome |-> o, result |-> ok]]
         /\ out' = [out EXCEPT ![i] =
                      IF FalsyUrl(url) THEN @
                      ELSE Append(@, Query(i, "probe", Arg("HEAD", url)))]
         /\ IF ok /\ url # PLACEHOLDER
            THEN /\ SetLoc(i, [loc[i] EXCEPT !.final = url])
                 /\ Goto(i, "fm_art")
            ELSE /\ UNCHANGED loc
                 /\ Goto(i, "fm_itunes")
    /\ UNCHANGED <<kv, req, kvops, invoked, resp>>

\* part_010:106-123 findCoverArt: the iTunes hit is returned unprobed
FmItunes(i) ==
    /\ pc[i] = "fm_itunes"
    /\ \E o \in ItunesOutcomes :
         /\ Emit(i, Query(i, "itunes", Arg("search", NULLURL)))
         /\ IF o = "found"
            THEN /\ SetLoc(i, [loc[i] EXCEPT !.final = ITUNES_COVER])
                 /\ Goto(i, "fm_art")
            ELSE /\ UNCHANGED loc
                 /\ Goto(i, "fm_mb")
    /\ UNCHANGED <<kv, req, kvops, probe, invoked, resp>>

\* part_010:128-135, 49-104
FmMusicBrainz(i) == MbQuery(i, "fm_mb", "fm_caa", "fm_mbdone")
FmCoverArtArchive(i) == CaaQuery(i, "fm_caa", "fm_mbdone")

FmFallbackDone(i) ==
    /\ pc[i] = "fm_mbdone"
    /\ SetLoc(i, [loc[i] EXCEPT !.final = loc[i].mbArt])
    /\ Goto(i, "fm_art")
    /\ UNCHANGED <<kv, req, out, kvops, probe, invoked, resp>>

\* part_010:263-275
FmArt(i) ==
    /\ pc[i] = "fm_art"
    /\ Goto(i, IF loc[i].final = NULLURL THEN "fm_notfound" ELSE "fm_color")
    /\ UNCHANGED <<kv, req, loc, out, kvops, probe, invoked, resp>>

\* part_010:264-271: the message, then a bare `return;`
FmNotFound(i) ==
    TryComplete(i, "fm_notfound", "Could not find album art", NULLURL,
                "fm_return_undefined", "fm_catch")

\* The handler resolved with undefined: the route produced no response.
FmReturnUndefined(i) ==
    /\ pc[i] = "fm_return_undefined"
    /\ Return(i, Response(500, "none", "no response returned"))
    /\ UNCHANGED <<kv, req, loc, out, kvops, probe, invoked>>

\* part_010:275
FmColor(i) == GetDominantColor(i, "fm_color", "fm_embed")

\* part_010:293-309: the embed with thumbnail.url
FmEmbed(i) ==
    TryComplete(i, "fm_embed", "embed", loc[i].final, "fm_return", "fm_catch")

\* part_010:311-319
FmCatch(i) == CatchComplete(i, "fm_catch", "An error occurred", "fm_return")

\* part_010:324
FmReturn(i) == Return204(i, "fm_return")

\* fm.dev.ts:112-121: no probe; the color is read when there is a URL
FmDevColor(i) ==
    /\ pc[i] = "fm_devcolor"
    /\ IF FalsyUrl(loc[i].artUrl)
       THEN UNCHANGED out
       ELSE \E o \in {"ok", "fail"} :
              Emit(i, Query(i, "image", Arg("GET", loc[i].artUrl)))
    /\ SetLoc(i, [loc[i] EXCEPT !.final = loc[i].artUrl])
    /\ Goto(i, "fm_embed")
    /\ UNCHANGED <<kv, req, kvops, probe, invoked, resp>>

-----------------------------------------------------------------------------
(* /dev: sandbox/dev.ts *)

\* dev.ts:18: process.env.DEVELOPER_IDS || '' -- unset, one id, two ids
DeveloperIdsEnv == {"", "U1", "U1,U2"}

\* dev.ts:18: .split(',')
developerIds(env) ==
    CASE env = "" -> {""}
      [] env = "U1" -> {"U1"}
      [] env = "U1,U2" -> {"U1", "U2"}

\* dev.ts:16-75
handleDevAnyPresentUser(i) ==
    /\ pc[i] = "handleDev"
    /\ \E env \in DeveloperIdsEnv :
         LET l == [loc[i] EXCEPT !.devIds = env] IN
         IF req[i].user = NULL
         THEN Return(i, Message("restricted to developers (ephemeral)")) /\ SetLoc(i, l)
         ELSE CASE req[i].sub = "none" ->
                     Return(i, Message("You must provide a command key")) /\ SetLoc(i, l)
                [] req[i].sub = "test-cover" ->
                     Goto(i, "handleCover") /\ SetLoc(i, l) /\ UNCHANGED resp
                [] req[i].sub = "test-fm" ->
                     \* fm.dev.ts:41-43: options[0].value is taken as the name
                     /\ SetLoc(i, [l EXCEPT !.mode = "fm_dev", !.user = req[i].sub])
                     /\ Goto(i, "fm_ack")
                     /\ UNCHANGED resp
                [] OTHER ->
                     Return(i, Message("Unknown developer command key")) /\ SetLoc(i, l)
    /\ UNCHANGED <<kv, req, out, kvops, probe, invoked>>
handleDev(i) ==
    /\ pc[i] = "handleDev"
    /\ \E env \in DeveloperIdsEnv :
         LET l == [loc[i] EXCEPT !.devIds = env] IN
         IF req[i].user = NULL \/ req[i].user \notin developerIds(env)
         THEN Return(i, Message("restricted to developers (ephemeral)")) /\ SetLoc(i, l)
         ELSE CASE req[i].sub = "none" ->
                     Return(i, Message("You must provide a command key")) /\ SetLoc(i, l)
                [] req[i].sub = "test-cover" ->
                     Goto(i, "handleCover") /\ SetLoc(i, l) /\ UNCHANGED resp
                [] req[i].sub = "test-fm" ->
                     \* fm.dev.ts:41-43: options[0].value is taken as the name
                     /\ SetLoc(i, [l EXCEPT !.mode = "fm_dev", !.user = req[i].sub])
                     /\ Goto(i, "fm_ack")
                     /\ UNCHANGED resp
                [] OTHER ->
                     Return(i, Message("Unknown developer command key")) /\ SetLoc(i, l)
    /\ UNCHANGED <<kv, req, out, kvops, probe, invoked>>


-----------------------------------------------------------------------------
(* /chart: chart.ts handleChart *)

\* chart.ts:389-393
handleChart(i) ==
    AckStep(i, "handleChart", "DeferredChannelMessageWithSource", "ch_user")

\* chart.ts:395-415: the `user` option, else kv.get -- outside the try
ChartUser(i) ==
    /\ pc[i] = "ch_user"
    /\ IF req[i].userOpt # NULL
       THEN /\ SetLoc(i, [loc[i] EXCEPT !.mode = "chart", !.user = req[i].userOpt])
            /\ Goto(i, "ch_top")
            /\ UNCHANGED <<kvops, resp>>
       ELSE /\ KvOp(i, [op |-> "get", key |-> req[i].user])
            /\ \E r \in KvOutcomes :
                 IF r = "throw"
                 THEN Return(i, Rejected) /\ UNCHANGED loc
                 ELSE IF kv[req[i].user] = NULL
                 THEN Goto(i, "ch_nouser") /\ UNCHANGED <<loc, resp>>
                 ELSE /\ SetLoc(i, [loc[i] EXCEPT !.mode = "chart",
                                                   !.user = kv[req[i].user]])
                      /\ Goto(i, "ch_top")
                      /\ UNCHANGED resp
    /\ UNCHANGED <<kv, req, out, probe, invoked>>

\* chart.ts:408-413: this PATCH is outside the try as well
ChartNoUser(i) == CatchComplete(i, "ch_nouser", "Please register", "ch_return")

\* chart.ts:421-433: user.gettopalbums
ChartTopAlbums(i) ==
    /\ pc[i] = "ch_top"
    /\ \E o \in {"throw", "too_few", "albums"} :
         /\ Emit(i, Query(i, "lastfm", Arg("user.gettopalbums", NULLURL)))
         /\ Goto(i, CASE o = "throw" -> "ch_catch"
                      [] o = "too_few" -> "ch_few"
                      [] OTHER -> "ch_render")
    /\ UNCHANGED <<kv, req, loc, kvops, probe, invoked, resp>>

\* chart.ts:425-431
ChartTooFew(i) ==
    TryComplete(i, "ch_few", "Could not fetch albums", NULLURL, "ch_return", "ch_catch")

\* chart.ts:434 createChartImage: the cover downloads are caught one by
\* one (317-381); the composition itself can reject
ChartRender(i) ==
    /\ pc[i] = "ch_render"
    /\ \E o \in {"ok", "throw"} :
         /\ Emit(i, Query(i, "image", Arg("GET covers", NULLURL)))
         /\ Goto(i, IF o = "ok" THEN "ch_file" ELSE "ch_catch")
    /\ UNCHANGED <<kv, req, loc, kvops, probe, invoked, resp>>

\* chart.ts:436-450
ChartFile(i) == TryComplete(i, "ch_file", "file", NULLURL, "ch_return", "ch_catch")

\* chart.ts:452-459
ChartCatch(i) == CatchComplete(i, "ch_catch", "An error occurred", "ch_return")

\* chart.ts:413 / 430 / 461
ChartReturn(i) == Return204(i, "ch_return")

-----------------------------------------------------------------------------
(* /serverchart: chart.ts handleServerChart *)

\* Keys a scan of the store yields
ScanKeys == {k \in KvKeys : kv[k] # NULL}

handleServerChart(i) ==
    AckStep(i, "handleServerChart", "DeferredChannelMessageWithSource", "sc_scan")

\* handleServerChart 72-85: kv.scanIterator()
ServerChartScan(i) ==
    /\ pc[i] = "sc_scan"
    /\ KvOp(i, [op |-> "scan", key |-> NULL])
    /\ \E r \in KvOutcomes :
         Goto(i, IF r = "throw" THEN "sc_catch"
                 ELSE IF ScanKeys = {} THEN "sc_nousers" ELSE "sc_mget")
    /\ UNCHANGED <<kv, req, loc, out, probe, invoked, resp>>

ServerChartNoUsers(i) ==
    TryComplete(i, "sc_nousers", "No users have registered", NULLURL, "sc_return", "sc_catch")

\* handleServerChart 87: kv.mget(...userKeys)
ServerChartMget(i) ==
    /\ pc[i] = "sc_mget"
    /\ KvOp(i, [op |-> "mget", key |-> NULL])
    /\ \E r \in KvOutcomes :
         Goto(i, IF r = "throw" THEN "sc_catch" ELSE "sc_fetch")
    /\ UNCHANGED <<kv, req, loc, out, probe, invoked, resp>>

\* handleServerChart 89-139: the per-user queries settle, the albums are
\* aggregated and counted
ServerChartFetch(i) ==
    /\ pc[i] = "sc_fetch"
    /\ \E o \in {"no_data", "too_few", "albums"} :
         /\ Emit(i, Query(i, "lastfm", Arg("user.gettopalbums", NULLURL)))
         /\ Goto(i, CASE o = "no_data" -> "sc_nodata"
                      [] o = "too_few" -> "sc_few"
                      [] OTHER -> "sc_render")
    /\ UNCHANGED <<kv, req, loc, kvops, probe, invoked, resp>>

ServerChartNoData(i) ==
    TryComplete(i, "sc_nodata", "Could not fetch any album data", NULLURL, "sc_return", "sc_catch")

ServerChartTooFew(i) ==
    TryComplete(i, "sc_few", "Not enough unique albums", NULLURL, "sc_return", "sc_catch")

\* handleServerChart 142
ServerChartRender(i) ==
    /\ pc[i] = "sc_render"
    /\ \E o \in {"ok", "throw"} :
         /\ Emit(i, Query(i, "image", Arg("GET covers", NULLURL)))
         /\ Goto(i, IF o = "ok" THEN "sc_file" ELSE "sc_catch")
    /\ UNCHANGED <<kv, req, loc, kvops, probe, invoked, resp>>

ServerChartFile(i) == TryComplete(i, "sc_file", "file", NULLURL, "sc_return", "sc_catch")

ServerChartCatch(i) == CatchComplete(i, "sc_catch", "An error occurred", "sc_return")

ServerChartReturn(i) == Return204(i, "sc_return")

-----------------------------------------------------------------------------
(* Countdown buttons: countdown.ts handleCountdownInteraction *)

\* countdown.ts:95: for (let i = 5; i > 0; i--)
CountdownFrom == 5

\* countdown.ts:56-90, 144-145
handleCountdownInteractionStartsAny(i) ==
    /\ pc[i] = "handleCountdownInteraction"
    /\ CASE req[i].custom_id = "cancel_countdown" ->
              Return(i, Response(200, "UpdateMessage", "Countdown Cancelled"))
              /\ UNCHANGED loc
         [] OTHER ->
              /\ SetLoc(i, [loc[i] EXCEPT !.mode = "countdown", !.k = CountdownFrom])
              /\ Goto(i, "cd_ack")
              /\ UNCHANGED resp
    /\ UNCHANGED <<kv, req, out, kvops, probe, invoked>>
handleCountdownInteractionAborts(i) ==
    /\ pc[i] = "handleCountdownInteraction"
    /\ CASE req[i].custom_id = "cancel_countdown" ->
              /\ resp' = [resp EXCEPT ![i] =
                             Response(200, "UpdateMessage", "Countdown Cancelled")]
              /\ pc' = [j \in Interactions |->
                           IF j = i \/ pc[j] \in {"cd_ack", "cd_tick"}
                           THEN "done" ELSE pc[j]]
              /\ UNCHANGED loc
         [] req[i].custom_id = "start_countdown" ->
              /\ SetLoc(i, [loc[i] EXCEPT !.mode = "countdown", !.k = CountdownFrom])
              /\ Goto(i, "cd_ack")
              /\ UNCHANGED resp
         [] OTHER ->
              Return(i, Response(400, "none", "Unknown button interaction"))
              /\ UNCHANGED loc
    /\ UNCHANGED <<kv, req, out, kvops, probe, invoked>>
handleCountdownInteraction(i) ==
    /\ pc[i] = "handleCountdownInteraction"
    /\ CASE req[i].custom_id = "cancel_countdown" ->
              Return(i, Response(200, "UpdateMessage", "Countdown Cancelled"))
              /\ UNCHANGED loc
         [] req[i].custom_id = "start_countdown" ->
              /\ SetLoc(i, [loc[i] EXCEPT !.mode = "countdown", !.k = CountdownFrom])
              /\ Goto(i, "cd_ack")
              /\ UNCHANGED resp
         [] OTHER ->
              Return(i, Response(400, "none", "Unknown button interaction"))
              /\ UNCHANGED loc
    /\ UNCHANGED <<kv, req, out, kvops, probe, invoked>>

\* countdown.ts:84-90
CountdownAck(i) == AckStep(i, "cd_ack", "DeferredMessageUpdate", "cd_tick")

\* countdown.ts:101: description: `**${i}**`
CountdownText(n) == <<"1", "2", "3", "4", "5">>[n]

\* countdown.ts:95-109: one PATCH per tick, then wait(1000)
CountdownTickIgnoresThrow(i) ==
    /\ pc[i] = "cd_tick"
    /\ loc[i].k > 0
    /\ \E r \in DiscordOutcomes :
         /\ out' = [out EXCEPT ![i] = @ \o Complete(i, CountdownText(loc[i].k), NULLURL, r)]
         /\ SetLoc(i, [loc[i] EXCEPT !.k = @ - 1])
         /\ UNCHANGED pc
    /\ UNCHANGED <<kv, req, kvops, probe, invoked, resp>>
CountdownTick(i) ==
    /\ pc[i] = "cd_tick"
    /\ loc[i].k > 0
    /\ \E r \in DiscordOutcomes :
         /\ out' = [out EXCEPT ![i] = @ \o Complete(i, CountdownText(loc[i].k), NULLURL, r)]
         /\ IF r = "throw"
            THEN Goto(i, "cd_catch") /\ UNCHANGED loc
            ELSE /\ SetLoc(i, [loc[i] EXCEPT !.k = @ - 1])
                 /\ UNCHANGED pc
    /\ UNCHANGED <<kv, req, kvops, probe, invoked, resp>>

\* countdown.ts:112-122
CountdownGoSkipped(i) ==
    /\ loc[i].k = 0
    /\ pc[i] = "cd_tick"
    /\ Goto(i, "cd_return")
    /\ UNCHANGED <<kv, req, loc, out, kvops, probe, invoked, resp>>
CountdownGo(i) ==
    /\ loc[i].k = 0
    /\ TryComplete(i, "cd_tick", "Go!", NULLURL, "cd_return", "cd_catch")

\* countdown.ts:124-136
CountdownCatch(i) ==
    CatchComplete(i, "cd_catch", "An error occurred during the countdown.", "cd_return")

\* countdown.ts:141
CountdownReturn(i) == Return204(i, "cd_return")


-----------------------------------------------------------------------------
(* /league: league.ts handleLeague.  POST has no case for it; the export   *)
(* is entered by a direct call.                                            *)

LeagueRequests ==
    { [NoReq EXCEPT !.entry = "handleLeague", !.sig = "valid",
                    !.type = ApplicationCommand, !.name = "league",
                    !.user = "U1", !.sub = sb] :
        sb \in {"none", "banned", "find", "find_bad_url", "playlist"} }

CallHandleLeague(i) ==
    /\ pc[i] = "idle"
    /\ \E r \in LeagueRequests : req' = [req EXCEPT ![i] = r]
    /\ pc' = [pc EXCEPT ![i] = "handleLeague"]
    /\ UNCHANGED <<kv, loc, out, kvops, probe, invoked, resp>>

\* league.ts:164-168
handleLeague(i) ==
    AckStep(i, "handleLeague", "DeferredChannelMessageWithSource", "lg_route")

\* league.ts:172-175, 229-234: options[0] is taken as the subcommand; a
\* name that is neither 'banned' nor 'find' matches no branch
LeagueRoute(i) ==
    /\ pc[i] = "lg_route"
    /\ CASE req[i].sub = "none" ->
              Goto(i, "lg_catch") /\ UNCHANGED loc
         [] req[i].sub = "banned" ->
              SetLoc(i, [loc[i] EXCEPT !.mode = "league", !.ret = "lg_banned"])
              /\ Goto(i, "lg_cache")
         [] req[i].sub = "find" ->
              SetLoc(i, [loc[i] EXCEPT !.mode = "league", !.ret = "lg_find"])
              /\ Goto(i, "lg_cache")
         [] req[i].sub = "find_bad_url" ->
              Goto(i, "lg_catch") /\ UNCHANGED loc
         [] OTHER ->
              Goto(i, "lg_return") /\ UNCHANGED loc
    /\ UNCHANGED <<kv, req, out, kvops, probe, invoked, resp>>

\* league.ts:106-113 getServerTopArtists: the cache read
LeagueCache(i) ==
    /\ pc[i] = "lg_cache"
    /\ KvOp(i, [op |-> "get", key |-> CacheKey])
    /\ \E r \in KvOutcomes :
         IF r = "throw" THEN Goto(i, "lg_catch") /\ UNCHANGED loc
         ELSE IF kv[CacheKey] # NULL
         THEN /\ SetLoc(i, [loc[i] EXCEPT !.sub = "artists"])
              /\ Goto(i, loc[i].ret)
         ELSE Goto(i, "lg_scan") /\ UNCHANGED loc
    /\ UNCHANGED <<kv, req, out, probe, invoked, resp>>

\* league.ts:116-118
LeagueScan(i) ==
    /\ pc[i] = "lg_scan"
    /\ KvOp(i, [op |-> "scan", key |-> NULL])
    /\ \E r \in KvOutcomes :
         Goto(i, IF r = "throw" \/ ScanKeys = {} THEN "lg_catch" ELSE "lg_mget")
    /\ UNCHANGED <<kv, req, loc, out, probe, invoked, resp>>

\* league.ts:120
LeagueMget(i) ==
    /\ pc[i] = "lg_mget"
    /\ KvOp(i, [op |-> "mget", key |-> NULL])
    /\ \E r \in KvOutcomes :
         Goto(i, IF r = "throw" THEN "lg_catch" ELSE "lg_fetch")
    /\ UNCHANGED <<kv, req, loc, out, probe, invoked, resp>>

\* league.ts:123-150: the per-user queries settle and are aggregated
LeagueFetchCachesEmpty(i) ==
    /\ pc[i] = "lg_fetch"
    /\ \E o \in {"empty", "artists"} :
         /\ Emit(i, Query(i, "lastfm", Arg("user.gettopartists", NULLURL)))
         /\ SetLoc(i, [loc[i] EXCEPT !.sub = o])
         /\ Goto(i, "lg_cache_set")
    /\ UNCHANGED <<kv, req, kvops, probe, invoked, resp>>
LeagueFetch(i) ==
    /\ pc[i] = "lg_fetch"
    /\ \E o \in {"empty", "artists"} :
         /\ Emit(i, Query(i, "lastfm", Arg("user.gettopartists", NULLURL)))
         /\ SetLoc(i, [loc[i] EXCEPT !.sub = o])
         /\ Goto(i, IF o = "artists" THEN "lg_cache_set" ELSE loc[i].ret)
    /\ UNCHANGED <<kv, req, kvops, probe, invoked, resp>>

\* league.ts:152-155: only a non-empty list is cached
LeagueCacheSet(i) ==
    /\ pc[i] = "lg_cache_set"
    /\ KvOp(i, [op |-> "set", key |-> CacheKey])
    /\ \E r \in KvOutcomes :
         IF r = "throw" THEN Goto(i, "lg_catch") /\ UNCHANGED kv
         ELSE /\ kv' = [kv EXCEPT ![CacheKey] = "artists"]
              /\ Goto(i, loc[i].ret)
    /\ UNCHANGED <<req, loc, out, probe, invoked, resp>>

\* league.ts:176-227: an empty list throws, otherwise the embed
LeagueBanned(i) ==
    IF loc[i].sub = "artists"
    THEN TryComplete(i, "lg_banned", "Banned artists embed", NULLURL, "lg_return", "lg_catch")
    ELSE /\ pc[i] = "lg_banned"
         /\ Goto(i, "lg_catch")
         /\ UNCHANGED <<kv, req, loc, out, kvops, probe, invoked, resp>>

\* league.ts:237-243: an empty list throws, otherwise the playlist cache
LeagueFind(i) ==
    /\ pc[i] = "lg_find"
    /\ IF loc[i].sub # "artists"
       THEN Goto(i, "lg_catch") /\ UNCHANGED kvops
       ELSE /\ KvOp(i, [op |-> "get", key |-> PlaylistKey])
            /\ \E r \in KvOutcomes :
                 Goto(i, IF r = "throw" THEN "lg_catch"
                         ELSE IF kv[PlaylistKey] # NULL THEN "lg_matches"
                         ELSE "lg_spotify")
    /\ UNCHANGED <<kv, req, loc, out, probe, invoked, resp>>

\* league.ts:245-246: getSpotifyToken, getPlaylistTracks
LeagueSpotify(i) ==
    /\ pc[i] = "lg_spotify"
    /\ \E o \in {"ok", "throw"} :
         /\ Emit(i, Query(i, "spotify", Arg("playlist tracks", NULLURL)))
         /\ Goto(i, IF o = "ok" THEN "lg_playlist_set" ELSE "lg_catch")
    /\ UNCHANGED <<kv, req, loc, kvops, probe, invoked, resp>>

\* league.ts:247
LeaguePlaylistSet(i) ==
    /\ pc[i] = "lg_playlist_set"
    /\ KvOp(i, [op |-> "set", key |-> PlaylistKey])
    /\ \E r \in KvOutcomes :
         IF r = "throw" THEN Goto(i, "lg_catch") /\ UNCHANGED kv
         ELSE /\ kv' = [kv EXCEPT ![PlaylistKey] = "tracks"]
              /\ Goto(i, "lg_matches")
    /\ UNCHANGED <<req, loc, out, probe, invoked, resp>>

\* league.ts:251-280
LeagueMatches(i) ==
    TryComplete(i, "lg_matches", "Matching tracks", NULLURL, "lg_return", "lg_catch")

\* league.ts:284-291
LeagueCatch(i) == CatchComplete(i, "lg_catch", "An error occurred", "lg_return")

\* league.ts:293
LeagueReturn(i) == Return204(i, "lg_return")

\* kv.set(..., { ex }): a cached entry expires
KvExpire ==
    /\ \E k \in {CacheKey, PlaylistKey} :
         /\ kv[k] # NULL
         /\ kv' = [kv EXCEPT ![k] = NULL]
    /\ UNCHANGED <<req, pc, loc, out, kvops, probe, invoked, resp>>

-----------------------------------------------------------------------------
(* Specification *)

Step(i) ==
    \/ Receive(i)
    \/ Retire(i)
    \/ POSTVerify(i)
    \/ POSTPing(i)
    \/ POSTCommand(i)
    \/ POSTUnknownCommand(i)
    \/ POSTComponent(i)
    \/ POSTUnhandledType(i)
    \/ handlePing(i)
    \/ handleRegister(i)
    \/ handleCountdown(i)
    \/ handleProfile(i)
    \/ handleCover(i)
    \/ handleRc(i)
    \/ CoverAck(i)
    \/ AlbumSearchQuery(i)
    \/ AlbumSearchResolved(i)
    \/ UserScrobbleQuery(i)
    \/ UserScrobbleNoTracks(i)
    \/ UserScrobbleResolved(i)
    \/ ResolveStart(i)
    \/ ProbeLastfm(i)
    \/ SeqItunes(i)
    \/ SeqProbeItunes(i)
    \/ SeqMusicBrainz(i)
    \/ SeqCoverArtArchive(i)
    \/ SeqProbeMusicBrainz(i)
    \/ HqIssue(i)
    \/ HqItunes(i)
    \/ HqMusicBrainz(i)
    \/ HqCoverArtArchive(i)
    \/ HqJoin(i)
    \/ HqProbe(i)
    \/ HqRank(i)
    \/ CoverColor(i)
    \/ CoverEmbed(i)
    \/ RcImage(i)
    \/ RcFile(i)
    \/ CoverNotFound(i)
    \/ CoverCatch(i)
    \/ CoverReturn(i)
    \/ handleFm(i)
    \/ FmAck(i)
    \/ FmRecent(i)
    \/ FmNoTracks(i)
    \/ FmTrackInfo(i)
    \/ FmProbe(i)
    \/ FmItunes(i)
    \/ FmMusicBrainz(i)
    \/ FmCoverArtArchive(i)
    \/ FmFallbackDone(i)
    \/ FmArt(i)
    \/ FmNotFound(i)
    \/ FmReturnUndefined(i)
    \/ FmColor(i)
    \/ FmEmbed(i)
    \/ FmCatch(i)
    \/ FmReturn(i)
    \/ FmDevColor(i)
    \/ handleDev(i)
    \/ handleChart(i)
    \/ ChartUser(i)
    \/ ChartNoUser(i)
    \/ ChartTopAlbums(i)
    \/ ChartTooFew(i)
    \/ ChartRender(i)
    \/ ChartFile(i)
    \/ ChartCatch(i)
    \/ ChartReturn(i)
    \/ handleServerChart(i)
    \/ ServerChartScan(i)
    \/ ServerChartNoUsers(i)
    \/ ServerChartMget(i)
    \/ ServerChartFetch(i)
    \/ ServerChartNoData(i)
    \/ ServerChartTooFew(i)
    \/ ServerChartRender(i)
    \/ ServerChartFile(i)
    \/ ServerChartCatch(i)
    \/ ServerChartReturn(i)
    \/ handleCountdownInteraction(i)
    \/ CountdownAck(i)
    \/ CountdownTick(i)
    \/ CountdownGo(i)
    \/ CountdownCatch(i)
    \/ CountdownReturn(i)
    \/ CallHandleLeague(i)
    \/ handleLeague(i)
    \/ LeagueRoute(i)
    \/ LeagueCache(i)
    \/ LeagueScan(i)
    \/ LeagueMget(i)
    \/ LeagueFetch(i)
    \/ LeagueCacheSet(i)
    \/ LeagueBanned(i)
    \/ LeagueFind(i)
    \/ LeagueSpotify(i)
    \/ LeaguePlaylistSet(i)
    \/ LeagueMatches(i)
    \/ LeagueCatch(i)
    \/ LeagueReturn(i)

\* One invocation at a time: the next request arrives when the previous
\* invocation has returned.
Next == (\E i \in SeqInteractions : Step(i)) \/ KvExpire

Spec == Init /\ [][Next]_vars

-----------------------------------------------------------------------------
(* getBestImageUrl over the candidate lists findAllCoverArtSources can      *)
(* hand it: the Last.fm URL, the iTunes result and the MusicBrainz result,  *)
(* in this order, nulls filtered out (cover.ts:160-171).                    *)

RankLastfm == {NULLURL, PLACEHOLDER, LFM_COVER, LFM_174S, LFM_NOSIZE,
               LFM_1000, LFM_5000, LFM_6000}
RankItunes == {NULLURL, ITUNES_COVER, ITUNES_100}
RankMusicBrainz == {NULLURL, CAA_COVER}

RankInputs ==
    { FilterTruthy(<<l, t, m>>) :
        l \in RankLastfm, t \in RankItunes, m \in RankMusicBrainz }

\* The state in which getBestImageUrl(urls) is entered
RankInit ==
    /\ kv = [k \in KvKeys |-> NULL]
    /\ req = [i \in Interactions |-> NoReq]
    /\ \E c \in RankInputs :
         loc = [i \in Interactions |->
                  IF i \in SeqInteractions
                  THEN [NoLoc EXCEPT !.hq = TRUE, !.mode = "cover_search",
                                     !.cands = c, !.k = 1, !.ret = "rank_done"]
                  ELSE NoLoc]
    /\ pc = [i \in Interactions |->
               IF i \in SeqInteractions THEN "hq_probe" ELSE "idle"]
    /\ out = [i \in Interactions |-> <<>>]
    /\ kvops = [i \in Interactions |-> <<>>]
    /\ probe = [i \in Interactions |-> NoProbe]
    /\ invoked = [i \in Interactions |-> <<>>]
    /\ resp = [i \in Interactions |-> NoResp]

RankNext == \E i \in SeqInteractions : HqProbe(i) \/ HqRank(i)

SpecRank == RankInit /\ [][RankNext]_vars

-----------------------------------------------------------------------------
(* The server-wide aggregations of handleServerChart (part_009:63-139) and  *)
(* getServerTopArtists (league.ts:123-157) over the answers Last.fm can     *)
(* give for the registered users.                                           *)

ArtistNames == {"Abba", "ABBA", "Abba - Gold"}
AlbumTitles == {"Hits", "Gold - Hits"}
PlayCounts == {"1", "2"}

\* String.prototype.toLowerCase on the names above
toLowerCase(s) ==
    CASE s = "Abba" -> "abba"
      [] s = "ABBA" -> "abba"
      [] s = "Abba - Gold" -> "abba - gold"
      [] s = "Hits" -> "hits"
      [] s = "Gold - Hits" -> "gold - hits"

\* parseInt(playcount, 10) on the play counts above
parseInt(s) ==
    CASE s = "1" -> 1
      [] s = "2" -> 2

\* part_009:64-66: sizeOption.split('x').map(Number), limit = width * height
GridSizes == {"1x1", "1x2", "1x3"}
gridLimit(size) ==
    CASE size = "1x1" -> 1 * 1
      [] size = "1x2" -> 1 * 2
      [] size = "1x3" -> 1 * 3

\* The album and artist entries of a user.gettopalbums / user.gettopartists
\* answer, and the lists an answer can hold
Albums == [artist : ArtistNames, name : AlbumTitles, playcount : PlayCounts]
Artists == [name : ArtistNames, playcount : PlayCounts]
ListsOf(S) == {<<>>} \cup {<<a>> : a \in S} \cup {<<a, b>> : a \in S, b \in S}

\* A settled fetch: rejected, fulfilled without the top list (an error
\* document), or fulfilled with it
SettledWith(lists) ==
    {[status |-> "rejected", has |-> FALSE, items |-> <<>>],
     [status |-> "fulfilled", has |-> FALSE, items |-> <<>>]}
    \cup {[status |-> "fulfilled", has |-> TRUE, items |-> l] : l \in lists}

\* part_009:105 and league.ts:136: the key of the Map
albumKey(album) == toLowerCase(album.artist) \o " - " \o toLowerCase(album.name)
artistKey(artist) == toLowerCase(artist.name)

\* part_009:101-104, league.ts:132-135: the entries of the results that are
\* fulfilled and hold the top list, in the order of the results
RECURSIVE FulfilledItems(_)
FulfilledItems(rs) ==
    IF rs = <<>> THEN <<>>
    ELSE (IF Head(rs).status = "fulfilled" /\ Head(rs).has
          THEN Head(rs).items ELSE <<>>) \o FulfilledItems(Tail(rs))

\* part_009:108-115, league.ts:138-142: Map.has / get / set.  The Map keeps
\* its entries in the order of their insertion.
MapAdd(map, key, item, n) ==
    IF \E k \in 1..Len(map) : map[k].key = key
    THEN [k \in 1..Len(map) |->
            IF map[k].key = key
            THEN [map[k] EXCEPT !.playcount = @ + n] ELSE map[k]]
    ELSE Append(map, [key |-> key, item |-> item, playcount |-> n])

RECURSIVE AggregateAlbums(_, _)
AggregateAlbums(items, map) ==
    IF items = <<>> THEN map
    ELSE AggregateAlbums(Tail(items),
             MapAdd(map, albumKey(Head(items)), Head(items),
                    parseInt(Head(items).playcount)))

RECURSIVE AggregateArtists(_, _)
AggregateArtists(items, map) ==
    IF items = <<>> THEN map
    ELSE AggregateArtists(Tail(items),
             MapAdd(map, artistKey(Head(items)), Head(items),
                    parseInt(Head(items).playcount)))

\* part_009:129-130, league.ts:147-148: sort((a, b) => b.playcount -
\* a.playcount), a stable sort
RECURSIVE InsertDesc(_, _)
InsertDesc(sorted, e) ==
    IF sorted = <<>> THEN <<e>>
    ELSE IF Head(sorted).playcount >= e.playcount
         THEN <<Head(sorted)>> \o InsertDesc(Tail(sorted), e)
         ELSE <<e>> \o sorted

RECURSIVE SortDesc(_, _)
SortDesc(map, sorted) ==
    IF map = <<>> THEN sorted
    ELSE SortDesc(Tail(map), InsertDesc(sorted, Head(map)))

\* Array.prototype.slice(0, n)
Slice(seq, n) == SubSeq(seq, 1, IF n < Len(seq) THEN n ELSE Len(seq))

\* kv.scanIterator() and kv.mget(...userKeys): the values of the keys of the
\* store (part_009:73-87, league.ts:116-120)
ScannedValues ==
    SelectSeq(<<kv["U1"], kv["U2"], kv[CacheKey], kv[PlaylistKey]>>,
              LAMBDA v : v # NULL)

\* part_009:89-139: one user.gettopalbums query for each value, all of them
\* settled (Promise.allSettled), then the aggregation, the ranking and the
\* count of what is left
ServerChartAggregateAll(i) ==
    /\ pc[i] = "sc_fetch"
    /\ \E rs \in [1..Len(ScannedValues) -> SettledWith(ListsOf(Albums))] :
         LET raised == \E k \in 1..Len(rs) : rs[k].status = "rejected"
             agg == AggregateAlbums(FulfilledItems(rs), <<>>)
             limit == gridLimit(loc[i].size)
             top == Slice(SortDesc(agg, <<>>), limit)
         IN  /\ out' = [out EXCEPT ![i] = @ \o
                          [k \in 1..Len(rs) |->
                             Query(i, "lastfm", Arg("user.gettopalbums", NULLURL))]]
             /\ SetLoc(i, [loc[i] EXCEPT !.settled = rs,
                                         !.agg = IF raised THEN <<>> ELSE agg,
                                         !.top = IF raised THEN <<>> ELSE top])
             /\ Goto(i, IF raised THEN "sc_catch"
                        ELSE IF agg = <<>> THEN "sc_nodata"
                        ELSE IF Len(top) < limit THEN "sc_few"
                        ELSE "sc_render")
    /\ UNCHANGED <<kv, req, kvops, probe, invoked, resp>>
ServerChartAggregate(i) ==
    /\ pc[i] = "sc_fetch"
    /\ \E rs \in [1..Len(ScannedValues) -> SettledWith(ListsOf(Albums))] :
         LET agg == AggregateAlbums(FulfilledItems(rs), <<>>)
             limit == gridLimit(loc[i].size)
             top == Slice(SortDesc(agg, <<>>), limit)
         IN  /\ out' = [out EXCEPT ![i] = @ \o
                          [k \in 1..Len(rs) |->
                             Query(i, "lastfm", Arg("user.gettopalbums", NULLURL))]]
             /\ SetLoc(i, [loc[i] EXCEPT !.settled = rs, !.agg = agg, !.top = top])
             /\ Goto(i, IF agg = <<>> THEN "sc_nodata"
                        ELSE IF Len(top) < limit THEN "sc_few"
                        ELSE "sc_render")
    /\ UNCHANGED <<kv, req, kvops, probe, invoked, resp>>

\* league.ts:123-157: the same for user.gettopartists; the names of the
\* thirty first artists are returned, and cached when there is one
LeagueAggregate(i) ==
    /\ pc[i] = "lg_fetch"
    /\ \E rs \in [1..Len(ScannedValues) -> SettledWith(ListsOf(Artists))] :
         LET agg == AggregateArtists(FulfilledItems(rs), <<>>)
             sorted == Slice(SortDesc(agg, <<>>), 30)
             top == [k \in 1..Len(sorted) |-> sorted[k].item.name]
         IN  /\ out' = [out EXCEPT ![i] = @ \o
                          [k \in 1..Len(rs) |->
                             Query(i, "lastfm", Arg("user.gettopartists", NULLURL))]]
             /\ SetLoc(i, [loc[i] EXCEPT !.settled = rs, !.agg = agg, !.top = top,
                                         !.sub = IF top = <<>> THEN "empty" ELSE "artists"])
             /\ Goto(i, IF top = <<>> THEN loc[i].ret ELSE "lg_cache_set")
    /\ UNCHANGED <<kv, req, kvops, probe, invoked, resp>>

\* The state after kv.mget answered: the acknowledgment is sent, the store
\* holds the registry
AggregateInit ==
    /\ \E u2 \in {NULL, "alice2"} :
         kv = [k \in KvKeys |->
                 IF k = "U1" THEN "alice_fm" ELSE IF k = "U2" THEN u2 ELSE NULL]
    /\ req = [i \in Interactions |-> NoReq]
    /\ \E l \in {[NoLoc EXCEPT !.size = g] : g \in GridSizes}
               \cup {[NoLoc EXCEPT !.ret = "agg_done"]} :
         /\ loc = [i \in Interactions |-> IF i \in SeqInteractions THEN l ELSE NoLoc]
         /\ pc = [i \in Interactions |->
                    IF i \notin SeqInteractions THEN "idle"
                    ELSE IF l.ret = "agg_done" THEN "lg_fetch" ELSE "sc_fetch"]
    /\ out = [i \in Interactions |-> <<>>]
    /\ kvops = [i \in Interactions |-> <<>>]
    /\ probe = [i \in Interactions |-> NoProbe]
    /\ invoked = [i \in Interactions |-> <<>>]
    /\ resp = [i \in Interactions |-> NoResp]

AggregateNext ==
    \E i \in SeqInteractions :
        \/ ServerChartAggregate(i)
        \/ ServerChartNoData(i)
        \/ ServerChartTooFew(i)
        \/ ServerChartRender(i)
        \/ ServerChartFile(i)
        \/ ServerChartCatch(i)
        \/ ServerChartReturn(i)
        \/ LeagueAggregate(i)
        \/ LeagueCacheSet(i)

SpecAggregate == AggregateInit /\ [][AggregateNext]_vars

-----------------------------------------------------------------------------
(* Two invocations in flight at once.  The platform runs each request in   *)
(* its own invocation (route.ts:230-231); they share nothing but the KV    *)
(* store.  The requests are those whose handlers the concurrency           *)
(* properties are about: /register and the countdown buttons.              *)

ConcurrentRequests ==
    { CommandReq("register", "U1", <<>>, FALSE, o, "none") : o \in Usernames }
    \cup { CommandReq("register", "U2", <<>>, FALSE, "alice_fm", "none") }
    \cup { [NoReq EXCEPT !.sig = "valid", !.type = MessageComponent,
                         !.user = "U1", !.custom_id = c] :
            c \in {"start_countdown", "cancel_countdown"} }

\* At most one countdown is in flight: a Start click is delivered when no
\* other invocation is handling one.
ConcurrentReceive(i) ==
    /\ pc[i] = "idle"
    /\ \E r \in ConcurrentRequests :
         /\ r.custom_id = "start_countdown" =>
               \A j \in Interactions \ {i} : req[j].custom_id # "start_countdown"
         /\ req' = [req EXCEPT ![i] = r]
    /\ pc' = [pc EXCEPT ![i] = "verify"]
    /\ UNCHANGED <<kv, loc, out, kvops, probe, invoked, resp>>

ConcurrentStep(i) ==
    \/ ConcurrentReceive(i)
    \/ Retire(i)
    \/ POSTVerify(i)
    \/ POSTCommand(i)
    \/ POSTComponent(i)
    \/ handleRegister(i)
    \/ handleCountdownInteraction(i)
    \/ CountdownAck(i)
    \/ CountdownTick(i)
    \/ CountdownGo(i)
    \/ CountdownCatch(i)
    \/ CountdownReturn(i)

ConcurrentNext == \E i \in Interactions : ConcurrentStep(i)

SpecConcurrent == Init /\ [][ConcurrentNext]_vars

-----------------------------------------------------------------------------
(* Properties of the deferred-response protocol *)

Calls(i) == 1..Len(out[i])
Completions(i) == { k \in Calls(i) : IsCompletion(out[i][k]) }
Acked(i) == \E j \in Calls(i) : IsAck(out[i][j]) /\ out[i][j].res # "throw"
IsCountdown(i) == req[i].type = MessageComponent

C3_CompletionAfterAck ==
    \A i \in Interactions :
        pc[i] = "done" /\ Acked(i) => Completions(i) # {}

C5_NoRejectionAfterAck ==
    \A i \in Interactions : Acked(i) => resp[i] # Rejected

-----------------------------------------------------------------------------
(* Properties of verification and dispatch *)

Untouched(i) == out[i] = <<>> /\ kvops[i] = <<>> /\ invoked[i] = <<>>

\* C6: a request with a missing signature header, a missing timestamp
\* header, an empty body or a bad signature is answered with 401 and
\* nothing else happens: no handler, no KV access, no outbound call
C6_Unauthorized ==
    \A i \in Interactions :
        req[i].sig \in SigStates \ {"valid"} =>
            /\ Untouched(i)
            /\ \/ pc[i] = "verify" /\ resp[i] = NoResp
               \/ /\ pc[i] = "done"
                  /\ resp[i] = Response(401, "none", "Invalid request signature")

C6_Witness ==
    \E i \in Interactions :
        /\ req[i].sig = "missing_timestamp"
        /\ pc[i] = "done"
        /\ resp[i].status = 401

\* C7: a verified Ping is answered with the Pong type and has no other
\* effect: no handler, no KV access, no outbound call
C7_PingPong ==
    \A i \in Interactions :
        req[i].sig = "valid" /\ req[i].type = Ping =>
            /\ Untouched(i)
            /\ \/ pc[i] \in {"verify", "dispatch"} /\ resp[i] = NoResp
               \/ pc[i] = "done" /\ resp[i] = Response(200, "Pong", "")

C7_Witness ==
    \E i \in Interactions :
        /\ req[i].sig = "valid"
        /\ req[i].type = Ping
        /\ pc[i] = "done"
        /\ resp[i].type = "Pong"

\* The handler of each command name in the switch of POST
C8_Routes ==
    [ping |-> "handlePing", register |-> "handleRegister",
     cover |-> "handleCover", fm |-> "handleFm",
     countdown |-> "handleCountdown", profile |-> "handleProfile",
     chart |-> "handleChart", serverchart |-> "handleServerChart",
     rc |-> "handleRc", dev |-> "handleDev"]

\* C8: a verified command whose name POST routes has exactly one handler
\* invoked, its own; an unknown name has none invoked, no outbound call,
\* and is answered with the explicit 'Unknown command' response
C8_Dispatch ==
    \A i \in Interactions :
        /\ req[i].entry = "POST"
        /\ req[i].sig = "valid"
        /\ req[i].type = ApplicationCommand
        /\ pc[i] \notin {"idle", "verify", "dispatch"}
        => IF req[i].name \in DOMAIN C8_Routes
           THEN invoked[i] = << C8_Routes[req[i].name] >>
           ELSE /\ Untouched(i)
                /\ pc[i] = "done"
                /\ resp[i] = Response(400, "none", "Unknown command")

C8_Witness ==
    \E i \in Interactions :
        /\ req[i].entry = "POST"
        /\ req[i].name = "league"
        /\ pc[i] = "done"
        /\ resp[i].body = "Unknown command"

-----------------------------------------------------------------------------
(* Properties of the source resolver *)

\* The probes that out[i] holds for a URL
ProbesOf(i, url) ==
    { k \in Calls(i) : out[i][k].kind = "probe" /\ out[i][k].arg.url = url }

\* C9: isValidImageUrl of cover.ts answers false for a null or empty URL
\* and for the Last.fm placeholder without a probe; for another URL it
\* probes and answers true only on a 2xx answer, false on a non-2xx
\* answer, a timeout or a network error, and never raises
C9_IsValidImageUrl ==
    \A i \in Interactions :
        LET p == probe[i] IN
        p.fn = "cover" =>
            /\ p.url \in {NULLURL, EMPTY, PLACEHOLDER} =>
                  /\ ~p.result
                  /\ p.outcome = "none"
                  /\ ProbesOf(i, p.url) = {}
            /\ p.url \notin {NULLURL, EMPTY, PLACEHOLDER} =>
                  /\ p.outcome \in ProbeOutcomes
                  /\ p.result <=> p.outcome = "ok"
                  /\ ProbesOf(i, p.url) # {}
            /\ pc[i] \notin {"cv_catch", "done"}

C9_Witness ==
    \E i \in Interactions :
        /\ probe[i].fn = "cover"
        /\ probe[i].url = ITUNES_COVER
        /\ probe[i].outcome = "non2xx"
        /\ ~probe[i].result

\* The calls of a kind made since the latest Last.fm query
SinceLastfm(i, kind) ==
    { k \in Calls(i) :
        /\ out[i][k].kind = kind
        /\ \A j \in Calls(i) : out[i][j].kind = "lastfm" => j < k }

\* C10: in the default mode the order is Last.fm, iTunes, MusicBrainz /
\* Cover Art Archive and the first usable URL is the result: a usable
\* Last.fm URL is returned with neither iTunes nor MusicBrainz queried, and
\* MusicBrainz is queried only after an absent or unusable iTunes result
C10_SequentialOrder ==
    \A i \in Interactions :
        LET l == loc[i] IN
        /\ l.mode \in {"cover_search", "cover_user", "rc_search", "rc_user"}
        /\ ~l.hq
        /\ pc[i] # "as_query"
        => /\ l.lfmOk = "yes" =>
                 /\ l.final = l.artUrl
                 /\ SinceLastfm(i, "itunes") = {}
                 /\ SinceLastfm(i, "musicbrainz") = {}
                 /\ SinceLastfm(i, "coverartarchive") = {}
           /\ SinceLastfm(i, "itunes") # {} =>
                 /\ l.lfmOk = "no"
                 /\ Cardinality(SinceLastfm(i, "itunes")) = 1
           /\ l.itOk = "yes" =>
                 /\ l.final = l.itunesArt
                 /\ SinceLastfm(i, "musicbrainz") = {}
                 /\ SinceLastfm(i, "coverartarchive") = {}
           /\ \A k \in SinceLastfm(i, "musicbrainz") \cup
                       SinceLastfm(i, "coverartarchive") :
                 /\ l.lfmOk = "no"
                 /\ l.itOk = "no"
                 /\ \E j \in SinceLastfm(i, "itunes") : j < k
           /\ l.mbOk = "yes" => l.final = l.mbArt
           /\ l.mbOk = "no" => l.final = NULLURL

C10_Witness ==
    \E i \in Interactions :
        /\ loc[i].mode = "cover_search"
        /\ ~loc[i].hq
        /\ loc[i].lfmOk = "no"
        /\ loc[i].itOk = "no"
        /\ loc[i].mbOk = "yes"
        /\ loc[i].final = CAA_COVER
        /\ SinceLastfm(i, "musicbrainz") # {}

-----------------------------------------------------------------------------
(* Properties of the ranking of the usable candidates *)

\* The invocation has just left getBestImageUrl: loc.valid holds the usable
\* candidates in provider order and loc.final the URL it returned
Ranked(i) == loc[i].hq /\ pc[i] \in {"rank_done", "as_resolved", "us_resolved"}

Usable(i) == { loc[i].valid[k] : k \in 1..Len(loc[i].valid) }

Archival(url) == url.host = "coverartarchive.org"

\* C11: when a usable candidate of the Cover Art Archive is present, the
\* ranking returns it, whatever width the other usable candidates' URLs
\* carry.
C11_ArchivalFirst ==
    \A i \in Interactions :
        Ranked(i) /\ (\E u \in Usable(i) : Archival(u))
            => Archival(loc[i].final)

\* A usable candidate that is not archival and whose URL carries a WxH token
Sized(i) == { u \in Usable(i) : ~Archival(u) /\ u.w > 0 }

\* C12: of two usable non-archival candidates with a WxH token, the one of
\* the lower width is never the URL returned: the wider one is ranked
\* before it.
C12_WiderFirst ==
    \A i \in Interactions :
        Ranked(i) =>
            \A a, b \in Sized(i) : a.w > b.w => loc[i].final # b

\* The wider candidate comes from the later provider and is returned.
C12_Witness ==
    \E i \in Interactions :
        /\ Ranked(i)
        /\ loc[i].valid = <<LFM_COVER, ITUNES_COVER>>
        /\ loc[i].final = ITUNES_COVER

\* C13: of two usable candidates with the same score, the one that comes
\* later in the provider order (Last.fm, iTunes, MusicBrainz) is never the
\* URL returned.
C13_EarlierProviderOnTie ==
    \A i \in Interactions :
        Ranked(i) =>
            \A j, k \in 1..Len(loc[i].valid) :
                /\ j < k
                /\ getImageQualityScore(loc[i].valid[j]) =
                       getImageQualityScore(loc[i].valid[k])
                => loc[i].final # loc[i].valid[k]

\* Last.fm and iTunes both answer with a usable 1000-pixel URL; the Last.fm
\* one is returned.
C13_Witness ==
    \E i \in Interactions :
        /\ Ranked(i)
        /\ loc[i].valid = <<LFM_1000, ITUNES_COVER>>
        /\ loc[i].final = LFM_1000

-----------------------------------------------------------------------------
(* Properties of the HQ gathering *)

\* C14: while both provider queries are pending either of them can settle
\* next; probing and ranking start only when both have settled; and every
\* URL a provider did yield is among the candidates, whatever happened to
\* the other provider.
C14_JoinAll ==
    \A i \in SeqInteractions :
        /\ pc[i] = "hq_gather" /\ loc[i].itSt = "pending"
              => ENABLED HqItunes(i)
        /\ pc[i] = "hq_gather" /\ loc[i].mbSt = "pending"
              => ENABLED HqMusicBrainz(i)
        /\ pc[i] = "hq_gather" /\ loc[i].mbSt = "caa"
              => ENABLED HqCoverArtArchive(i)
        /\ pc[i] = "hq_probe"
              => /\ loc[i].itSt = "done"
                 /\ loc[i].mbSt = "done"
                 /\ \A u \in {loc[i].artUrl, loc[i].itunesArt, loc[i].mbArt} :
                       ~FalsyUrl(u) =>
                           \E k \in 1..Len(loc[i].cands) : loc[i].cands[k] = u

\* The iTunes query failed, the Cover Art Archive answered, and its URL is
\* being probed.
C14_Witness ==
    \E i \in SeqInteractions :
        /\ pc[i] = "hq_probe"
        /\ loc[i].itSt = "done"
        /\ loc[i].itunesArt = NULLURL
        /\ loc[i].mbArt = CAA_COVER
        /\ loc[i].k <= Len(loc[i].cands)
        /\ loc[i].cands[loc[i].k] = CAA_COVER

-----------------------------------------------------------------------------
(* Properties of the completion payloads *)

\* C15: every image URL that a completion call carries (embed image or
\* thumbnail, attachment) is a URL that the invocation probed before the
\* call; a URL that was never probed is not delivered.
C15_DeliveredWasProbed ==
    \A i \in Interactions :
        \A k \in Completions(i) :
            out[i][k].arg.url # NULLURL
                => \E j \in ProbesOf(i, out[i][k].arg.url) : j < k

\* The album.search queries that out[i] holds before position k
SearchesBefore(i, k) ==
    { j \in 1..(k-1) : out[i][j].kind = "lastfm" /\ out[i][j].arg.what = "album.search" }

NotFoundTexts == {"Could not find album art",
                  "Could not find album art (also tried normalized)"}

\* C16: for an album search whose query contains diacritics, a completion
\* call that declares failure comes after the searches for both forms, and
\* its message names both forms.
C16_BothFormsNamed ==
    \A i \in Interactions :
        IsSearch(loc[i]) /\ Len(loc[i].queries) > 1 =>
            \A k \in Completions(i) :
                out[i][k].arg.what \in NotFoundTexts
                    => /\ Cardinality(SearchesBefore(i, k)) = 2
                       /\ out[i][k].arg.what =
                              "Could not find album art (also tried normalized)"

-----------------------------------------------------------------------------
(* Properties of the identity registry *)

\* A /register of invocation i has just stored its username
Registers(i) ==
    /\ pc[i] = "handleRegister"
    /\ resp'[i] = Message("Success! saved")

\* A registry read of invocation i has just returned a username
ReadsRegistry(i) ==
    /\ pc[i] \in {"handleCover", "handleRc"}
    /\ pc'[i] = "cv_ack"
    /\ loc'[i].mode \in {"cover_user", "rc_user"}

\* C17: a /register of username u by user d leaves exactly u under d,
\* whatever was stored before; nothing but a /register of d changes the
\* entry of d; and a registry read for d returns the stored value.  So a
\* read returns the username of the latest /register of d.
C17_RegisterRoundTrip ==
    [][ \A i \in Interactions :
          /\ Registers(i) => kv'[req[i].user] = req[i].userOpt
          /\ ReadsRegistry(i) => loc'[i].user = kv[req[i].user]
          /\ \A d \in Users :
                kv'[d] # kv[d] =>
                    \E j \in Interactions : Registers(j) /\ req[j].user = d
      ]_vars

\* alice2 is registered for U1 and /cover without options has read it.
C17_Witness ==
    \E i \in Interactions :
        /\ req[i].name = "cover"
        /\ pc[i] = "cv_ack"
        /\ loc[i].mode = "cover_user"
        /\ kv[req[i].user] = "alice2"
        /\ loc[i].user = "alice2"

\* The invocation is a verified /cover without a search value, of a user
\* that has no registry entry, and handleCover has run
UnregisteredCover(i) ==
    /\ req[i].name = "cover"
    /\ req[i].type = ApplicationCommand
    /\ req[i].sig = "valid"
    /\ req[i].search = <<>> \/ req[i].search = << <<>> >>
    /\ kv[req[i].user] = NULL
    /\ pc[i] \notin {"idle", "verify", "dispatch", "handleCover"}

RegisterFirst == Message("register first (ephemeral)")

\* C18: /cover without options by a user with no registered username
\* answers the request with the ephemeral message that asks to register,
\* and makes no outbound call at all (the one exception is a registry read
\* that fails, which rejects the request).
C18_UnregisteredCover ==
    \A i \in Interactions :
        UnregisteredCover(i) =>
            /\ out[i] = <<>>
            /\ pc[i] = "done"
            /\ resp[i] \in {RegisterFirst, Rejected}

C18_Witness ==
    \E i \in Interactions :
        /\ UnregisteredCover(i)
        /\ req[i].search = <<>>
        /\ resp[i] = RegisterFirst
        /\ kvops[i] # <<>>
        /\ out[i] = <<>>

\* The payload of the completion call at position k of out[i]
IsEmbedWithImage(c) == c.arg.what = "embed" /\ c.arg.url # NULLURL
IsNotFound(c) == c.arg.what \in NotFoundTexts
IsErrorMessage(c) == c.arg.what = "An error occurred"

\* C19 as stated: every completion call of a /cover search carries an
\* embed with its image URL set or a 'could not find' message.
C19_EmbedOrNotFound ==
    \A i \in Interactions :
        loc[i].mode = "cover_search" =>
            \A k \in Completions(i) :
                IsEmbedWithImage(out[i][k]) \/ IsNotFound(out[i][k])

\* C19: every completion call of a /cover search carries an embed with its
\* image URL set, a 'could not find' message, or the generic error message
\* of the catch block; the error message comes last and never after a
\* completion call that was answered.
C19_EmbedNotFoundOrError ==
    \A i \in Interactions :
        loc[i].mode = "cover_search" =>
            \A k \in Completions(i) :
                /\ \/ IsEmbedWithImage(out[i][k])
                   \/ IsNotFound(out[i][k])
                   \/ IsErrorMessage(out[i][k])
                /\ IsErrorMessage(out[i][k]) =>
                      /\ k = Len(out[i])
                      /\ \A j \in Completions(i) :
                            j < k => out[i][j].res = "throw"

\* The Last.fm search raised and the catch block delivered its message.
C19_Witness ==
    \E i \in Interactions :
        /\ loc[i].mode = "cover_search"
        /\ Len(out[i]) = 3
        /\ IsAck(out[i][1])
        /\ out[i][2].kind = "lastfm"
        /\ IsCompletion(out[i][3])
        /\ IsErrorMessage(out[i][3])
        /\ out[i][3].res = "ok"

\* The invocation is a verified command that needs a Last.fm identity, the
\* request supplies none and the registry holds none for the user
NoIdentity(i) ==
    /\ req[i].type = ApplicationCommand
    /\ req[i].sig = "valid"
    /\ \/ /\ req[i].name \in {"cover", "rc"}
          /\ req[i].search = <<>> \/ req[i].search = << <<>> >>
       \/ /\ req[i].name \in {"fm", "chart"}
          /\ req[i].userOpt = NULL
    /\ kv[req[i].user] = NULL

\* C20: a command that needs a Last.fm identity and finds none sends no
\* acknowledgment, and answers the request with the ephemeral message that
\* asks to register (unless the registry read itself failed).
C20_NoIdentityNoDeferral ==
    \A i \in Interactions :
        NoIdentity(i) =>
            /\ \A k \in Calls(i) : ~IsAck(out[i][k])
            /\ pc[i] = "done" /\ resp[i] # Rejected => resp[i] = RegisterFirst

-----------------------------------------------------------------------------
(* Properties of provider failures *)

ProviderKinds == {"itunes", "musicbrainz", "coverartarchive", "probe"}

CoverModes == {"cover_search", "cover_user", "rc_search", "rc_user"}

\* C21: in /cover and /rc, a completion call that comes right after a
\* query of iTunes, MusicBrainz or the Cover Art Archive, or right after a
\* probe, is the 'Could not find album art' message of a resolution that
\* ended with no URL: whatever the outcome of the query or probe was, it is
\* never the generic error message.
C21_ProviderFailureIsNotFound ==
    \A i \in Interactions :
        loc[i].mode \in CoverModes =>
            \A k \in Completions(i) :
                k > 1 /\ out[i][k-1].kind \in ProviderKinds
                    => /\ IsNotFound(out[i][k])
                       /\ loc[i].final = NULLURL

\* iTunes and the Cover Art Archive were asked, nothing usable came back,
\* and the not-found message followed the last lookup.
C21_Witness ==
    \E i \in Interactions :
        /\ loc[i].mode = "cover_search"
        /\ ~loc[i].hq
        /\ Len(out[i]) >= 3
        /\ \E j \in Calls(i) : out[i][j].kind = "itunes"
        /\ out[i][Len(out[i]) - 1].kind = "coverartarchive"
        /\ IsCompletion(out[i][Len(out[i])])
        /\ IsNotFound(out[i][Len(out[i])])

-----------------------------------------------------------------------------
(* Properties of concurrent invocations *)

\* C22: with /register invocations running concurrently, each write that
\* is applied leaves exactly its own username under its user id and leaves
\* every other entry as it was; an entry changes by such a write only and
\* is never removed; and an entry always is one username.  So after any
\* interleaving the entry of an id is the username of the write applied
\* last.
C22_LastWriteWins ==
    /\ [](\A d \in Users : kv[d] \in Usernames \cup {NULL})
    /\ [][ /\ \A i \in Interactions :
                Registers(i) =>
                    /\ kv'[req[i].user] = req[i].userOpt
                    /\ \A k \in KvKeys \ {req[i].user} : kv'[k] = kv[k]
          /\ \A d \in Users :
                kv'[d] # kv[d] =>
                    /\ kv'[d] # NULL
                    /\ \E j \in Interactions : Registers(j) /\ req[j].user = d
        ]_vars

\* Two /register invocations of U1 with different usernames have both
\* written, neither has been retired, U2 is registered as well, and the
\* entry of U1 is one of the two usernames.
C22_Witness ==
    /\ \A i \in Interactions :
          /\ req[i].name = "register"
          /\ req[i].user = "U1"
          /\ resp[i] = Message("Success! saved")
    /\ \E i, j \in Interactions : req[i].userOpt # req[j].userOpt
    /\ kv["U2"] # NULL
    /\ kv["U1"] = "alice_fm"

\* Invocation j has just handled a Cancel click
Cancels(j) ==
    /\ pc[j] = "handleCountdownInteraction"
    /\ req[j].custom_id = "cancel_countdown"
    /\ pc'[j] = "done"

\* The PATCH calls of the countdown that out[i] holds
TickTexts == { CountdownText(n) : n \in 1..CountdownFrom }
Ticks(i) == { k \in Calls(i) : out[i][k].arg.what \in TickTexts }

\* No PATCH of invocation i was rejected
NoneRejected(i) == \A k \in Completions(i) : out[i][k].res # "throw"

\* C23: a Cancel click handled by another invocation returns its own
\* 'cancelled' update and changes nothing of a countdown in progress; the
\* countdown's next PATCH stays enabled whatever the other invocation
\* does; and a countdown that ends without a rejected PATCH has issued
\* all its ticks and the final PATCH.
C23_CancelAbortsNothing ==
    /\ [][ \A i, j \in Interactions :
              i # j /\ Cancels(j) =>
                  /\ resp'[j] = Response(200, "UpdateMessage", "Countdown Cancelled")
                  /\ out'[j] = <<>>
                  /\ pc'[i] = pc[i]
                  /\ loc'[i] = loc[i]
                  /\ out'[i] = out[i]
                  /\ resp'[i] = resp[i]
        ]_vars
    /\ [](\A i \in Interactions :
            /\ pc[i] = "cd_tick" => ENABLED (CountdownTick(i) \/ CountdownGo(i))
            /\ loc[i].mode = "countdown" /\ pc[i] \in {"cd_return", "done"}
                  /\ Acked(i) /\ NoneRejected(i)
                  => /\ Cardinality(Ticks(i)) = CountdownFrom
                     /\ out[i][Len(out[i])].arg.what = "Go!")

\* The countdown has issued its ticks and its final PATCH while the other
\* invocation holds the response of a Cancel click.
C23_Witness ==
    \E i, j \in Interactions :
        /\ i # j
        /\ req[j].custom_id = "cancel_countdown"
        /\ resp[j] = Response(200, "UpdateMessage", "Countdown Cancelled")
        /\ loc[i].mode = "countdown"
        /\ pc[i] = "cd_return"
        /\ Cardinality(Ticks(i)) = CountdownFrom
        /\ out[i][Len(out[i])].arg.what = "Go!"

-----------------------------------------------------------------------------
(* Properties of the component routing *)

\* The invocation is a verified component click that handleCountdownInteraction
\* has handled
Clicked(i, c) ==
    /\ req[i].type = MessageComponent
    /\ req[i].sig = "valid"
    /\ req[i].custom_id = c
    /\ pc[i] \notin {"idle", "verify", "dispatch", "handleCountdownInteraction"}

\* C24: a component click goes to handleCountdownInteraction.  For
\* 'cancel_countdown' it answers with the message update and makes no
\* outbound call; for 'start_countdown' its first outbound call is the
\* DeferredMessageUpdate acknowledgment and the countdown follows; for any
\* other custom identifier it answers 400 and makes no outbound call.
C24_ComponentRouting ==
    \A i \in Interactions :
        /\ Clicked(i, "cancel_countdown") =>
              /\ invoked[i] = <<"handleCountdownInteraction">>
              /\ pc[i] = "done"
              /\ resp[i] = Response(200, "UpdateMessage", "Countdown Cancelled")
              /\ out[i] = <<>>
        /\ Clicked(i, "start_countdown") =>
              /\ invoked[i] = <<"handleCountdownInteraction">>
              /\ loc[i].mode = "countdown"
              /\ pc[i] \in {"cd_ack", "cd_tick", "cd_catch", "cd_return", "done"}
              /\ pc[i] # "cd_ack" =>
                    /\ out[i] # <<>>
                    /\ IsAck(out[i][1])
                    /\ out[i][1].arg.what = "DeferredMessageUpdate"
              /\ resp[i] \in {NoResp, NoContent, Rejected}
        /\ Clicked(i, "other_button") =>
              /\ invoked[i] = <<"handleCountdownInteraction">>
              /\ pc[i] = "done"
              /\ resp[i] = Response(400, "none", "Unknown button interaction")
              /\ out[i] = <<>>

\* A click on an unknown button has been answered with the error response.
C24_Witness ==
    \E i \in Interactions :
        /\ Clicked(i, "other_button")
        /\ resp[i].status = 400
        /\ out[i] = <<>>

\* What an invocation holds of its own
Own(i) == <<req[i], pc[i], loc[i], out[i], kvops[i], probe[i], invoked[i], resp[i]>>

-----------------------------------------------------------------------------
(* Properties of the acknowledgment and of the countdown *)

Acks(i) == { k \in Calls(i) : IsAck(out[i][k]) }

\* C26: an invocation attempts the acknowledgment at most once, as its
\* first outbound call, whatever the outcome; an invocation that makes a
\* completion call has attempted it exactly once.
C26_SingleAcknowledgment ==
    \A i \in Interactions :
        /\ Cardinality(Acks(i)) <= 1
        /\ Acks(i) # {} => Acks(i) = {1}
        /\ Completions(i) # {} => Cardinality(Acks(i)) = 1

\* The acknowledgment was answered and the work went on to a completion
\* call without a second attempt.
C26_Witness ==
    \E i \in Interactions :
        /\ Len(out[i]) >= 2
        /\ IsAck(out[i][1])
        /\ Cardinality(Acks(i)) = 1
        /\ Completions(i) # {}

\* Every call of the invocation was answered with a 2xx status
AllOk(i) == \A k \in Calls(i) : out[i][k].res \in {"answered", "ok"}

CountdownPayloads == <<"5", "4", "3", "2", "1", "Go!">>

\* C27: a countdown none of whose calls fails acknowledges with
\* DeferredMessageUpdate, then issues the PATCH calls 5, 4, 3, 2, 1 and
\* 'Go!' in this order, six in all; it has no response before the last
\* PATCH, it can always take its next step, and it ends with the 204
\* response.
C27_Countdown ==
    \A i \in Interactions :
        loc[i].mode = "countdown" /\ AllOk(i) =>
            /\ Len(out[i]) <= 1 + Len(CountdownPayloads)
            /\ \A k \in Calls(i) :
                  IF k = 1
                  THEN IsAck(out[i][k]) /\ out[i][k].arg.what = "DeferredMessageUpdate"
                  ELSE /\ IsCompletion(out[i][k])
                       /\ out[i][k].arg.what = CountdownPayloads[k - 1]
            /\ pc[i] \in {"cd_ack", "cd_tick", "cd_return", "done"}
            /\ pc[i] = "cd_ack" => out[i] = <<>> /\ ENABLED CountdownAck(i)
            /\ pc[i] = "cd_tick" =>
                  /\ Len(out[i]) <= Len(CountdownPayloads)
                  /\ resp[i] = NoResp
                  /\ ENABLED (CountdownTick(i) \/ CountdownGo(i))
            /\ pc[i] = "cd_return" =>
                  /\ Len(out[i]) = 1 + Len(CountdownPayloads)
                  /\ resp[i] = NoResp
                  /\ ENABLED CountdownReturn(i)
            /\ pc[i] = "done" =>
                  /\ Len(out[i]) = 1 + Len(CountdownPayloads)
                  /\ resp[i] = NoContent

\* The countdown has returned after its six PATCH calls.
C27_Witness ==
    \E i \in Interactions :
        /\ loc[i].mode = "countdown"
        /\ AllOk(i)
        /\ pc[i] = "done"
        /\ resp[i] = NoContent
        /\ Len(out[i]) = 7
        /\ out[i][2].arg.what = "5"
        /\ out[i][7].arg.what = "Go!"

CountdownError == "An error occurred during the countdown."

\* C28: in a countdown, the call after a PATCH of a tick or of 'Go!' that
\* raised is the error PATCH and nothing follows it: the ticks that were
\* left and 'Go!' are skipped, and a handler that has left its work has
\* attempted the error PATCH exactly once.  The call after a PATCH that
\* was answered, with whatever status, is the next PATCH of the countdown.
C28_CountdownFailure ==
    \A i \in Interactions :
        loc[i].mode = "countdown" =>
            \A k \in Completions(i) :
                /\ out[i][k].arg.what # CountdownError /\ out[i][k].res = "throw" =>
                      /\ Len(out[i]) <= k + 1
                      /\ Len(out[i]) = k + 1 => out[i][k+1].arg.what = CountdownError
                      /\ Len(out[i]) = k => pc[i] = "cd_catch"
                /\ out[i][k].arg.what # CountdownError /\ out[i][k].res # "throw"
                      /\ Len(out[i]) > k =>
                      /\ out[i][k+1].arg.what = CountdownPayloads[k]
                      /\ k <= Len(CountdownPayloads)
                /\ out[i][k].arg.what = CountdownError =>
                      /\ k = Len(out[i])
                      /\ out[i][k-1].res = "throw"

\* The second tick raised and the error PATCH ended the countdown; the
\* first tick had a non-2xx answer and the countdown went on.
C28_Witness ==
    \E i \in Interactions :
        /\ loc[i].mode = "countdown"
        /\ Len(out[i]) = 4
        /\ out[i][2].arg.what = "5" /\ out[i][2].res = "non2xx"
        /\ out[i][3].arg.what = "4" /\ out[i][3].res = "throw"
        /\ out[i][4].arg.what = CountdownError
        /\ pc[i] = "cd_return"

-----------------------------------------------------------------------------
(* Properties of /dev and /fm *)

\* The invocation is a verified /dev that handleDev has handled
DevHandled(i) ==
    /\ req[i].name = "dev"
    /\ req[i].type = ApplicationCommand
    /\ req[i].sig = "valid"
    /\ pc[i] \notin {"idle", "verify", "dispatch", "handleDev"}

\* C29: handleDev goes on to a test command only for a caller whose id is
\* present and listed in DEVELOPER_IDS; for every other caller, also when
\* DEVELOPER_IDS is unset or the id is missing, it answers with the
\* 'restricted to developers' message, enters no test command and makes no
\* outbound call and no registry read.
C29_DevelopersOnly ==
    \A i \in Interactions :
        DevHandled(i)
        /\ (req[i].user = NULL \/ req[i].user \notin developerIds(loc[i].devIds))
            => /\ pc[i] = "done"
               /\ resp[i] = Message("restricted to developers (ephemeral)")
               /\ out[i] = <<>>
               /\ kvops[i] = <<>>
               /\ loc[i].mode = "none"

\* DEVELOPER_IDS is unset and a caller with an id was turned away.
C29_Witness ==
    \E i \in Interactions :
        /\ DevHandled(i)
        /\ loc[i].devIds = ""
        /\ req[i].user = "U1"
        /\ req[i].sub = "test-cover"
        /\ resp[i] = Message("restricted to developers (ephemeral)")

\* C30: in /fm, a username given as an option is the one the Last.fm
\* query is made for, and the registry is read only when no option is
\* given.
C30_OptionBeforeRegistry ==
    \A i \in Interactions :
        /\ req[i].name = "fm"
        /\ req[i].type = ApplicationCommand
        /\ req[i].sig = "valid"
        /\ req[i].userOpt # NULL
        /\ pc[i] \notin {"idle", "verify", "dispatch", "handleFm"}
        => /\ kvops[i] = <<>>
           /\ resp[i] # Rejected => loc[i].user = req[i].userOpt

-----------------------------------------------------------------------------
(* Properties of the album search loop *)

\* The album.search queries that out[i] holds
Searches(i) ==
    { k \in Calls(i) : out[i][k].kind = "lastfm" /\ out[i][k].arg.what = "album.search" }

\* C31 as stated: a second album.search query comes right after the first,
\* that is, after a first query that yielded no match from Last.fm.
C31_SecondOnlyAfterNoMatch ==
    \A i \in Interactions :
        IsSearch(loc[i]) =>
            \A j, k \in Searches(i) : j < k => k = j + 1

\* C31: an album search makes at most two album.search queries; it makes
\* two only when the diacritic-stripped query differs from the original
\* one; and once a query has yielded a usable cover no further query is
\* made.  The second query follows a first one that yielded no usable
\* cover, be it for want of a match or of a usable candidate.
C31_SecondOnlyWithoutCover ==
    /\ [](\A i \in Interactions :
            IsSearch(loc[i]) =>
                /\ Cardinality(Searches(i)) <= 2
                /\ Cardinality(Searches(i)) = 2 =>
                      /\ Len(loc[i].queries) = 2
                      /\ loc[i].queries[1] # loc[i].queries[2]
                      /\ loc[i].queries[2] = normalizeString(loc[i].queries[1]))
    /\ [][ \A i \in Interactions :
              IsSearch(loc[i]) /\ loc[i].final # NULLURL /\ out'[i] # <<>>
                  => Searches(i)' = Searches(i) ]_vars

\* The original query matched an album whose candidates were all unusable,
\* and the stripped query was sent after the fallback providers were asked.
C31_Witness ==
    \E i \in Interactions :
        /\ loc[i].mode = "cover_search"
        /\ Cardinality(Searches(i)) = 2
        /\ \E j, k \in Searches(i) :
              /\ j + 1 < k
              /\ out[i][j + 1].kind \in ProviderKinds

-----------------------------------------------------------------------------
(* Properties of getBestImageUrl *)

\* The URLs of the HEAD probes that out[i] holds, in the order of the calls
ProbeUrls(i) ==
    LET ps == SelectSeq(out[i], LAMBDA c : c.kind = "probe")
    IN  [k \in 1..Len(ps) |-> ps[k].arg.url]

NeedsProbe(url) == ~SkipsProbe(url)

\* C32 as stated: when getBestImageUrl returns, the probes it issued are
\* one for each candidate, in the order of the candidates.
C32_EachCandidateProbed ==
    \A i \in Interactions :
        Ranked(i) => ProbeUrls(i) = loc[i].cands

\* C32: getBestImageUrl checks each candidate exactly once with
\* isValidImageUrl, in the given order; the check issues one HEAD probe for
\* a candidate other than the Last.fm placeholder and none for the
\* placeholder, which it rejects.  A candidate is kept exactly when its
\* check answered true.  getBestImageUrl returns null if and only if no
\* candidate was kept; otherwise it returns a kept candidate, and no kept
\* candidate has a strictly higher quality score.
C32_BestOfProbed ==
    /\ [][ \A i \in Interactions :
              pc[i] = "hq_probe" /\ loc[i] # loc'[i] /\ pc'[i] = "hq_probe" =>
                  /\ loc[i].k <= Len(loc[i].cands)
                  /\ loc'[i].k = loc[i].k + 1
                  /\ probe'[i].url = loc[i].cands[loc[i].k]
                  /\ loc'[i].valid =
                        IF probe'[i].result
                        THEN Append(loc[i].valid, loc[i].cands[loc[i].k])
                        ELSE loc[i].valid ]_vars
    /\ [](\A i \in Interactions :
            Ranked(i) =>
                /\ loc[i].k = Len(loc[i].cands) + 1
                /\ ProbeUrls(i) = SelectSeq(loc[i].cands, NeedsProbe)
                /\ loc[i].final = NULLURL <=> loc[i].valid = <<>>
                /\ loc[i].final # NULLURL =>
                      /\ loc[i].final \in Usable(i)
                      /\ \A u \in Usable(i) :
                            getImageQualityScore(u) <=
                                getImageQualityScore(loc[i].final))

\* The placeholder is rejected without a probe, the probe of the iTunes
\* URL fails, and the archive URL, probed last, is returned.
C32_Witness ==
    \E i \in Interactions :
        /\ Ranked(i)
        /\ loc[i].cands = <<PLACEHOLDER, ITUNES_100, CAA_COVER>>
        /\ ProbeUrls(i) = <<ITUNES_100, CAA_COVER>>
        /\ loc[i].valid = <<CAA_COVER>>
        /\ loc[i].final = CAA_COVER

-----------------------------------------------------------------------------
(* Properties of the server-wide aggregations *)

\* handleServerChart has aggregated and counted, and is about to complete
\* or to render
ChartAggregated(i) ==
    loc[i].size # "none" /\ pc[i] \in {"sc_nodata", "sc_few", "sc_render"}

\* The case-insensitive (artist, album) pair of an album entry
PairOf(album) == <<toLowerCase(album.artist), toLowerCase(album.name)>>

RECURSIVE SumPlays(_, _)
SumPlays(items, S) ==
    IF S = {} THEN 0
    ELSE LET k == CHOOSE k \in S : TRUE
         IN  parseInt(items[k].playcount) + SumPlays(items, S \ {k})

\* The play counts of the entries of a pair, summed over all users
PairTotal(items, p) ==
    SumPlays(items, {k \in 1..Len(items) : PairOf(items[k]) = p})

PairsOf(items) == {PairOf(items[k]) : k \in 1..Len(items)}

\* C33: handleServerChart charts the `limit` albums with the highest play
\* count summed over the registered users by case-insensitive (artist,
\* album) pair, in non-increasing order; with fewer than `limit` distinct
\* albums it goes to the 'Not enough unique albums' completion and renders
\* nothing.
C33_TopAlbumsByPair ==
    \A i \in Interactions :
        ChartAggregated(i) =>
            LET items == FulfilledItems(loc[i].settled)
                limit == gridLimit(loc[i].size)
                top == loc[i].top
            IN  IF Cardinality(PairsOf(items)) < limit
                THEN pc[i] = "sc_few"
                ELSE /\ pc[i] = "sc_render"
                     /\ Len(top) = limit
                     /\ \A k \in 1..Len(top) :
                          top[k].playcount = PairTotal(items, PairOf(top[k].item))
                     /\ \A j, k \in 1..Len(top) :
                          j < k => /\ top[j].playcount >= top[k].playcount
                                   /\ PairOf(top[j].item) # PairOf(top[k].item)
                     /\ \A p \in PairsOf(items) :
                          (\A k \in 1..Len(top) : PairOf(top[k].item) # p)
                              => PairTotal(items, p) <= top[limit].playcount


\* The entries <<u, k>> of the settled results that are fulfilled and hold
\* the top list
Succeeded(rs) ==
    { e \in (1..Len(rs)) \X (1..2) :
        /\ rs[e[1]].status = "fulfilled"
        /\ rs[e[1]].has
        /\ e[2] <= Len(rs[e[1]].items) }

RECURSIVE SumEntries(_, _)
SumEntries(rs, E) ==
    IF E = {} THEN 0
    ELSE LET e == CHOOSE e \in E : TRUE
         IN  parseInt(rs[e[1]].items[e[2]].playcount) + SumEntries(rs, E \ {e})

RECURSIVE SumMap(_)
SumMap(map) ==
    IF map = <<>> THEN 0 ELSE Head(map).playcount + SumMap(Tail(map))

\* C34: the step of handleServerChart and of getServerTopArtists that
\* fetches for every registered user never goes to the catch block, whatever
\* number of fetches is rejected or answered with an error document: it
\* issues one query for each scanned value, all of them are settled when the
\* aggregation runs, and every entry of every successful answer is in the
\* aggregate, with its play count in the sum.
C34_FailedFetchDoesNotAbort ==
    [][ \A i \in Interactions :
          pc[i] \in {"sc_fetch", "lg_fetch"} /\ pc'[i] # pc[i] =>
              LET rs == loc'[i].settled
                  agg == loc'[i].agg
              IN  /\ pc'[i] \notin {"sc_catch", "lg_catch"}
                  /\ Len(rs) = Len(ScannedValues)
                  /\ Len(out'[i]) = Len(out[i]) + Len(ScannedValues)
                  /\ \A e \in Succeeded(rs) :
                       \E k \in 1..Len(agg) :
                           agg[k].key =
                               IF pc[i] = "sc_fetch"
                               THEN albumKey(rs[e[1]].items[e[2]])
                               ELSE artistKey(rs[e[1]].items[e[2]])
                  /\ SumMap(agg) = SumEntries(rs, Succeeded(rs)) ]_vars

\* The fetch for the first user was rejected, the second user's answer is
\* aggregated, and the chart is rendered.
C34_Witness ==
    \E i \in Interactions :
        /\ pc[i] = "sc_render"
        /\ Len(loc[i].settled) = 2
        /\ loc[i].settled[1].status = "rejected"
        /\ loc[i].settled[2].has
        /\ loc[i].agg # <<>>

-----------------------------------------------------------------------------
(* Properties of the cache of getServerTopArtists *)

CacheGet == [op |-> "get", key |-> CacheKey]
CacheSet == [op |-> "set", key |-> CacheKey]

\* C35: when kv.get answers and the cache key holds a value,
\* getServerTopArtists returns it at once, with no scan and no Last.fm
\* query; when the key holds none it goes on to the scan.  The cache is
\* written only with a list that is not empty: an empty list is returned
\* with the store unchanged.
C35_CacheFirst ==
    /\ [][ \A i \in Interactions :
             pc[i] = "lg_cache" /\ pc'[i] \notin {"lg_cache", "lg_catch"} =>
                 IF kv[CacheKey] # NULL
                 THEN /\ pc'[i] = loc[i].ret
                      /\ loc'[i].sub = "artists"
                      /\ out'[i] = out[i]
                      /\ kvops'[i] = Append(kvops[i], CacheGet)
                 ELSE pc'[i] = "lg_scan" ]_vars
    /\ [][ \A i \in Interactions :
             /\ Len(kvops'[i]) > Len(kvops[i]) /\ kvops'[i][Len(kvops'[i])] = CacheSet
                   => pc[i] = "lg_cache_set" /\ loc[i].sub = "artists"
             /\ pc[i] = "lg_fetch" /\ pc'[i] # pc[i] /\ loc'[i].sub = "empty"
                   => /\ pc'[i] = loc[i].ret
                      /\ kvops'[i] = kvops[i]
                      /\ kv' = kv ]_vars
    /\ [](\A i \in Interactions : pc[i] = "lg_cache_set" => loc[i].sub = "artists")

\* A cache hit: the list is back in the handler after the single kv.get,
\* and no Last.fm query was made.
C35_Witness ==
    \E i \in Interactions :
        /\ pc[i] \in {"lg_banned", "lg_find"}
        /\ kv[CacheKey] # NULL
        /\ loc[i].sub = "artists"
        /\ kvops[i] = <<CacheGet>>
        /\ \A k \in Calls(i) : out[i][k].kind # "lastfm"

-----------------------------------------------------------------------------
(* Properties of the key space and of the registered commands *)

\* C36: every key that kv.scanIterator() returns is a user id of the
\* registry.
C36_ScanReturnsRegistryOnly == ScanKeys \subseteq Users

\* register-commands.js:92-276: the names of the commands registered with
\* the platform
RegisteredCommands ==
    {"ping", "fm", "register", "dev", "countdown", "cover", "rc", "profile",
     "chart", "league", "serverchart"}

\* C37: a verified command of a registered name is never answered with the
\* 'Unknown command' response.
C37_RegisteredAreRouted ==
    \A i \in Interactions :
        /\ req[i].entry = "POST"
        /\ req[i].sig = "valid"
        /\ req[i].type = ApplicationCommand
        /\ req[i].name \in RegisteredCommands
        /\ pc[i] = "done"
        => resp[i] # Response(400, "none", "Unknown command")

====
